---- MODULE Spec2Model ----
(***************************************************************************)
(* Salon management backend: the visit billing and payment-reconciliation  *)
(* workflow (routes/visits.js, routes/services.js, the payment routes of   *)
(* index.js) as a state machine over the Service and Visit collections.    *)
(*                                                                         *)
(* Amounts are rupees.  Prices and discount percents are integers in the   *)
(* route specifications; the one fractional input there is the client-sent *)
(* cashAmount, kept in tenths of a rupee.  The discount is computed as the *)
(* code computes it, in IEEE-754 double arithmetic:                        *)
(* Math.round(subtotal * (pct / 100)).  SpecCalc compares the form's and   *)
(* the server's arithmetic on fractional prices; SpecForm and SpecEntry    *)
(* follow the visit form, SpecSeed the owner seeding, SpecUsers the admin  *)
(* user routes.  SpecAccess puts the service routes behind their guards,   *)
(* SpecConflict sends duplicates, SpecOrder creates gateway orders,        *)
(* SpecReport reads the artist dashboards, SpecSeedFair is SpecSeed under  *)
(* fairness, SpecLogin follows the sessions, SpecArtists the artist routes *)
(* and SpecRace the requests that run between each other's awaits.         *)
(***************************************************************************)
EXTENDS Integers, Sequences, FiniteSets, TLC

(***************************************************************************)
(* Natural numbers of arbitrary size, little-endian sequences of limbs,    *)
(* used only to carry the 53-bit mantissas of JavaScript Numbers.          *)
(***************************************************************************)
LimbBits == 15
LimbBase == 2^LimbBits

RECURSIVE BigTrim(_)
BigTrim(a) ==
  IF a = <<>> THEN <<>>
  ELSE IF a[Len(a)] = 0 THEN BigTrim(SubSeq(a, 1, Len(a) - 1)) ELSE a

BigFromInt(n) ==
  BigTrim(<<n % LimbBase, (n \div LimbBase) % LimbBase, n \div (LimbBase * LimbBase)>>)

RECURSIVE BigMulSmall(_, _, _)
BigMulSmall(a, k, carry) ==
  IF a = <<>> THEN (IF carry = 0 THEN <<>> ELSE <<carry>>)
  ELSE LET t == Head(a) * k + carry
       IN  <<t % LimbBase>> \o BigMulSmall(Tail(a), k, t \div LimbBase)

RECURSIVE BigAdd(_, _, _)
BigAdd(a, b, carry) ==
  IF a = <<>> /\ b = <<>> THEN (IF carry = 0 THEN <<>> ELSE <<carry>>)
  ELSE LET x == IF a = <<>> THEN 0 ELSE Head(a)
           y == IF b = <<>> THEN 0 ELSE Head(b)
           t == x + y + carry
       IN  <<t % LimbBase>> \o BigAdd(IF a = <<>> THEN <<>> ELSE Tail(a),
                                      IF b = <<>> THEN <<>> ELSE Tail(b),
                                      t \div LimbBase)

RECURSIVE BigDivRem(_, _)
BigDivRem(a, k) ==
  IF a = <<>> THEN [q |-> <<>>, r |-> 0]
  ELSE LET hi == BigDivRem(Tail(a), k)
           t  == hi.r * LimbBase + Head(a)
       IN  [q |-> <<t \div k>> \o hi.q, r |-> t % k]

RECURSIVE SmallBitLen(_)
SmallBitLen(n) == IF n = 0 THEN 0 ELSE 1 + SmallBitLen(n \div 2)

BigBitLen(a) ==
  IF a = <<>> THEN 0 ELSE LimbBits * (Len(a) - 1) + SmallBitLen(a[Len(a)])

BigShl(a, n) ==
  IF a = <<>> THEN <<>>
  ELSE [i \in 1..(n \div LimbBits) |-> 0] \o BigMulSmall(a, 2^(n % LimbBits), 0)

BigShr(a, n) ==
  IF n \div LimbBits >= Len(a) THEN <<>>
  ELSE BigTrim(BigDivRem(SubSeq(a, (n \div LimbBits) + 1, Len(a)), 2^(n % LimbBits)).q)

BigIsOdd(a) == a # <<>> /\ Head(a) % 2 = 1

BigToInt(a) ==
  IF a = <<>> THEN 0 ELSE IF Len(a) = 1 THEN a[1] ELSE a[1] + LimbBase * a[2]

(***************************************************************************)
(* JavaScript Numbers (IEEE-754 binary64), non-negative and normal: the    *)
(* value [m, e] is m * 2^e with m below 2^53.                              *)
(***************************************************************************)
MantissaBits == 53
GuardBits    == MantissaBits + 22

\* Round n * 2^e to 53 significant bits, to nearest, ties to even.
FlRound(n, e) ==
  LET len == BigBitLen(n) IN
  IF len <= MantissaBits THEN [m |-> n, e |-> e]
  ELSE LET r      == len - MantissaBits
           q      == BigShr(n, r)
           q1     == BigShr(n, r - 1)
           sticky == BigShl(q1, r - 1) # n
           up     == BigIsOdd(q1) /\ (sticky \/ BigIsOdd(q))
       IN  [m |-> IF up THEN BigAdd(q, <<1>>, 0) ELSE q, e |-> e + r]

\* The Number p / d for integers p >= 0, d > 0 (the quotient keeps a sticky bit).
FlDiv(p, d) ==
  LET dr == BigDivRem(BigShl(BigFromInt(p), GuardBits), d)
      n  == BigAdd(BigMulSmall(BigTrim(dr.q), 2, 0),
                   IF dr.r = 0 THEN <<>> ELSE <<1>>, 0)
  IN  FlRound(n, 0 - GuardBits - 1)

\* The Number s * x for an integer s >= 0 and a Number x.
FlMul(s, x) == FlRound(BigMulSmall(x.m, s, 0), x.e)

\* Math.round: floor(x + 1/2), exact.
MathRound(x) ==
  IF x.e >= 0 THEN BigToInt(BigShl(x.m, x.e))
  ELSE LET k == 0 - x.e
       IN  BigToInt(BigShr(BigAdd(BigMulSmall(x.m, 2, 0), BigShl(<<1>>, k), 0), k + 1))

Min(a, b) == IF a < b THEN a ELSE b
Max(a, b) == IF a > b THEN a ELSE b

RECURSIVE BigMul(_, _)
BigMul(a, b) ==
  IF b = <<>> THEN <<>>
  ELSE BigTrim(BigAdd(BigMulSmall(a, Head(b), 0),
                      IF Tail(b) = <<>> THEN <<>> ELSE <<0>> \o BigMul(a, Tail(b)), 0))

\* a - b; the top limb is -1 when b is the larger.
RECURSIVE BigSub(_, _, _)
BigSub(a, b, borrow) ==
  IF a = <<>> /\ b = <<>> THEN (IF borrow = 0 THEN <<>> ELSE <<-1>>)
  ELSE LET x == IF a = <<>> THEN 0 ELSE Head(a)
           y == IF b = <<>> THEN 0 ELSE Head(b)
           t == x - y - borrow
       IN  <<t % LimbBase>> \o BigSub(IF a = <<>> THEN <<>> ELSE Tail(a),
                                      IF b = <<>> THEN <<>> ELSE Tail(b),
                                      IF t < 0 THEN 1 ELSE 0)

\* The Numbers x + y and x * y.
FlAdd(x, y) ==
  LET e == Min(x.e, y.e)
  IN  FlRound(BigTrim(BigAdd(BigShl(x.m, x.e - e), BigShl(y.m, y.e - e), 0)), e)
FlTimes(x, y) == FlRound(BigMul(x.m, y.m), x.e + y.e)

\* Math.max(0, x - d) for a Number x and an integer d >= 0.
FlMinus(x, d) ==
  LET e    == Min(x.e, 0)
      diff == BigSub(BigShl(x.m, x.e - e), BigShl(BigFromInt(d), 0 - e), 0)
  IN  IF diff # <<>> /\ diff[Len(diff)] = -1 THEN [m |-> <<>>, e |-> 0]
      ELSE FlRound(BigTrim(diff), e)

\* x === y
FlEq(x, y) ==
  LET e == Min(x.e, y.e) IN BigShl(x.m, x.e - e) = BigShl(y.m, y.e - e)

(***************************************************************************)
(* Billing, as routes/visits.js and the useVisitForm hook compute it.      *)
(***************************************************************************)
\* pct / 100 for every integer percent, as a Number.
PctFraction == [p \in 0..100 |-> FlDiv(p, 100)]

ClampPct(discountPercent) == Min(100, Max(0, discountPercent))

\* Math.round(subtotal * (pct / 100))
RoundedDiscount(subtotal, pct) == MathRound(FlMul(subtotal, PctFraction[pct]))

\* A total that takes off only half the discount: C3 must tell it from FinalTotal.
HalfDiscounted(subtotal, discountAmount) == Max(0, subtotal - discountAmount \div 2)

FinalTotal(subtotal, discountAmount) == Max(0, subtotal - discountAmount)

(***************************************************************************)
(* Collections and request bodies.                                         *)
(***************************************************************************)
MaxServices == 2
MaxVisits   == 2

ServiceIds == 1..MaxServices
Names      == {"Haircut", "Shave"}
Prices     == {50, 150}

Null == "null"
\* A test that lets the empty string through: C6 must tell it from Falsy.
FalsyNullOnly(v) == v = Null

Falsy(v) == v \in {Null, ""}

\* A slot of the Service collection: never allocated, permanently deleted, or a document.
NoDoc   == [slot |-> "free"]
Deleted == [slot |-> "deleted"]
ServiceDocs == [name : Names, price : Prices, isActive : BOOLEAN]
IsDoc(d) == d \notin {NoDoc, Deleted}

PaymentIds == {"pay_1"}
OrderIds   == {"order_1", "order_2"}
LinkIds    == {"plink_1"}
PaymentMethods == {"online", "cash", "partial"}

\* serviceIds arrays a client can send: any order, with repeats, possibly empty.
ServiceIdArrays == {<<>>} \cup UNION {[1..n -> ServiceIds] : n \in 1..MaxServices}

DiscountPercents == {0, 41, 100}
\* cashAmount as sent, in tenths of a rupee: 0, 0.4, 20, 49.6
CashTenths == {0, 4, 200, 496}
OnlineAmounts == {0, 7}

\* Every subtotal a bill can have, and the discount for each, tabulated once.
RECURSIVE PriceSums(_)
PriceSums(n) ==
  IF n = 0 THEN {0} ELSE PriceSums(n - 1) \cup {s + p : s \in PriceSums(n - 1), p \in Prices}

DiscountTable ==
  [s \in PriceSums(MaxServices) |-> [p \in 0..100 |-> RoundedDiscount(s, p)]]

DiscountAmount(subtotal, pct) == DiscountTable[subtotal][pct]

VisitBodies ==
  [serviceIds : ServiceIdArrays, discountPercent : DiscountPercents,
   paymentMethod : PaymentMethods, cashAmount : CashTenths,
   onlineAmount : OnlineAmounts, razorpayPaymentId : {Null, ""} \cup PaymentIds]

(***************************************************************************)
(* POST /api/visits                                                        *)
(***************************************************************************)
Range(f) == {f[i] : i \in DOMAIN f}

\* Service.find({_id: {$in: serviceIds}, isActive: true}): the matching
\* documents, once each, in collection order.
\* A lookup that forgets the isActive filter: C1 must tell it from FindActive.
RECURSIVE FindAnyStatus(_, _, _)
FindAnyStatus(catalog, ids, i) ==
  IF i > MaxServices THEN <<>>
  ELSE (IF IsDoc(catalog[i]) /\ i \in ids
          THEN <<catalog[i]>> ELSE <<>>) \o FindAnyStatus(catalog, ids, i + 1)

\* A lookup that gives up when one requested id is not an active service: C12
\* must tell it from FindActive.
FindAllOrNothing(catalog, ids, i) ==
  IF \A j \in ids : IsDoc(catalog[j]) /\ catalog[j].isActive
    THEN FindAnyStatus(catalog, ids, i) ELSE <<>>

RECURSIVE FindActive(_, _, _)
FindActive(catalog, ids, i) ==
  IF i > MaxServices THEN <<>>
  ELSE (IF IsDoc(catalog[i]) /\ catalog[i].isActive /\ i \in ids
          THEN <<catalog[i]>> ELSE <<>>) \o FindActive(catalog, ids, i + 1)

Snapshot(s) == [name |-> s.name, price |-> s.price]

RECURSIVE SumPrices(_)
SumPrices(svcs) == IF svcs = <<>> THEN 0 ELSE Head(svcs).price + SumPrices(Tail(svcs))

\* Math.round(Number(cashAmount)) for a non-negative amount in tenths.
RoundTenths(t) == (t + 5) \div 10

DerivedCash(body, finalTotal) ==
  IF body.paymentMethod = "cash" THEN finalTotal
  ELSE IF body.paymentMethod = "partial" THEN RoundTenths(body.cashAmount)
  ELSE 0

\* A split that trusts the client's onlineAmount: C10 must tell it from DerivedOnline.
ClientOnline(body, finalTotal) ==
  IF body.paymentMethod = "cash" THEN 0 ELSE body.onlineAmount

DerivedOnline(body, finalTotal) ==
  IF body.paymentMethod = "cash" THEN 0
  ELSE IF body.paymentMethod = "partial" THEN finalTotal - DerivedCash(body, finalTotal)
  ELSE finalTotal

StoredPaymentId(body) ==
  IF Falsy(body.razorpayPaymentId) THEN Null ELSE body.razorpayPaymentId

Reply(status, success, error) == [status |-> status, success |-> success, error |-> error]

NoVisit == [none |-> TRUE]

\* The whole handler as a function of the catalog and the request body:
\* the response, and the Visit document it creates (NoVisit when it creates none).
PostVisitOutcome(catalog, body) ==
  IF body.serviceIds = <<>>
    THEN [res |-> Reply(400, FALSE, "At least one service is required"), visit |-> NoVisit]
  ELSE
  LET serviceDocs    == FindActive(catalog, Range(body.serviceIds), 1)
      services       == [i \in 1..Len(serviceDocs) |-> Snapshot(serviceDocs[i])]
      subtotal       == SumPrices(services)
      pct            == ClampPct(body.discountPercent)
      discountAmount == DiscountAmount(subtotal, pct)
      finalTotal     == FinalTotal(subtotal, discountAmount)
  IN
  IF Len(serviceDocs) = 0
    THEN [res |-> Reply(400, FALSE, "No valid active services found"), visit |-> NoVisit]
  ELSE IF body.paymentMethod = "online" /\ Falsy(body.razorpayPaymentId)
    THEN [res |-> Reply(400, FALSE, "Razorpay Payment ID is required for online payment"),
          visit |-> NoVisit]
  ELSE IF body.paymentMethod = "partial" /\ Falsy(body.razorpayPaymentId)
    THEN [res |-> Reply(400, FALSE, "Razorpay Payment ID is required for partial payment"),
          visit |-> NoVisit]
  ELSE IF body.paymentMethod = "partial"
          /\ (body.cashAmount = 0 \/ body.cashAmount <= 0
              \/ body.cashAmount >= 10 * finalTotal)
    THEN [res |-> Reply(400, FALSE,
                        "Cash amount must be between 1 and total minus 1 for partial payment"),
          visit |-> NoVisit]
  ELSE [res   |-> Reply(201, TRUE, ""),
        visit |-> [services          |-> services,
                   subtotal          |-> subtotal,
                   discountPercent   |-> pct,
                   discountAmount    |-> discountAmount,
                   finalTotal        |-> finalTotal,
                   paymentMethod     |-> body.paymentMethod,
                   cashAmount        |-> DerivedCash(body, finalTotal),
                   onlineAmount      |-> DerivedOnline(body, finalTotal),
                   paymentStatus     |-> "success",
                   razorpayPaymentId |-> StoredPaymentId(body)]]

(***************************************************************************)
(* State.  services and visits are the two collections; res is the last    *)
(* HTTP response; razorpay tells whether the gateway client was built at   *)
(* start-up (RAZORPAY_KEY_ID set).  verifiedPayments is a history          *)
(* variable: the payment ids a verify route has answered success for.      *)
(* reqs is a script of requests fixed at the start of a run and served is  *)
(* how many of them have been handled (both stay empty in the free-running *)
(* specification); in SpecRace reqs holds the requests in flight.          *)
(***************************************************************************)
VARIABLES services, visits, res, razorpay, verifiedPayments, reqs, served,
          client, gateway, users, artists, seeding, sessions

\* client is the receptionist's visit form in the browser and gateway the
\* payment gateway's orders and payments; users and artists are the two staff
\* collections and seeding the owner-seeding state of each server process;
\* sessions is the session store, one entry per cookie handed out.
formVars == <<client, gateway>>
userVars == <<users, artists, seeding, sessions>>

vars == <<services, visits, res, razorpay, verifiedPayments, reqs, served,
          client, gateway, users, artists, seeding, sessions>>

NoRes == Reply(0, FALSE, "")

\* No form open, nothing at the gateway, no staff records, no server process.
NoClient  == [pc |-> "closed"]
NoGateway == [orders |-> <<>>, payments |-> <<>>]
NoFormNoStaff ==
  /\ client = NoClient
  /\ gateway = NoGateway
  /\ users = <<>>
  /\ artists = <<>>
  /\ seeding = <<>>
  /\ sessions = <<>>

(***************************************************************************)
(* /api/services, as the owner                                             *)
(***************************************************************************)
\* String.prototype.toLowerCase, and the "i" flag of the duplicate-name regex,
\* on the strings that occur here with capitals; any other is lower-case already.
toLowerCase(str) ==
  CASE str = "Haircut" -> "haircut"
    [] str = "HAIRCUT" -> "haircut"
    [] str = "Shave"   -> "shave"
    [] str = "Staff@Salon.test" -> "staff@salon.test"
    [] OTHER -> str

\* A duplicate check that compares names as they are spelled: C22 must tell
\* it from NameTaken.
NameTakenAsSpelled(catalog, name, except) ==
  \E i \in ServiceIds : i # except /\ IsDoc(catalog[i]) /\ catalog[i].name = name

NameTaken(catalog, name, except) ==
  \E i \in ServiceIds : i # except /\ IsDoc(catalog[i])
                         /\ toLowerCase(catalog[i].name) = toLowerCase(name)

FreeSlots(catalog) == {i \in ServiceIds : catalog[i] = NoDoc}

\* POST /api/services
CreateService(name, price) ==
  /\ FreeSlots(services) # {}
  /\ IF name = ""
       THEN res' = Reply(400, FALSE, "Service name is required") /\ UNCHANGED services
     ELSE IF price < 0
       THEN res' = Reply(400, FALSE, "Price must be a non-negative number")
            /\ UNCHANGED services
     ELSE IF NameTaken(services, name, 0)
       THEN res' = Reply(409, FALSE, "A service with this name already exists")
            /\ UNCHANGED services
     ELSE LET id == CHOOSE i \in FreeSlots(services) : \A j \in FreeSlots(services) : i <= j
          IN  /\ services' = [services EXCEPT
                                ![id] = [name |-> name, price |-> price, isActive |-> TRUE]]
              /\ res' = Reply(201, TRUE, "")
  /\ UNCHANGED <<visits, razorpay, verifiedPayments, reqs, served, formVars, userVars>>

\* A PATCH body: fields names the keys present in it.
PatchFields == {"name", "price", "isActive"}
PatchBodies ==
  {b \in [fields : {{}, {"isActive"}, {"price"}, {"name", "price"}},
          name : Names, price : Prices, isActive : BOOLEAN] :
     /\ ("name" \notin b.fields => b.name = "Haircut")
     /\ ("price" \notin b.fields => b.price = 50)
     /\ ("isActive" \notin b.fields => b.isActive = TRUE)}

ApplyPatch(doc, body) ==
  [name     |-> IF "name" \in body.fields THEN body.name ELSE doc.name,
   price    |-> IF "price" \in body.fields THEN body.price ELSE doc.price,
   isActive |-> IF "isActive" \in body.fields THEN body.isActive ELSE doc.isActive]

\* A PATCH that also rewrites the price kept in existing visits: C9 must tell
\* it from PatchService.
RepricedVisit(v, name, price) ==
  [v EXCEPT !.services = [k \in DOMAIN v.services |->
                            IF v.services[k].name = name
                              THEN [v.services[k] EXCEPT !.price = price]
                              ELSE v.services[k]]]

PatchServiceCascade(id, body) ==
  /\ IF ~IsDoc(services[id])
       THEN res' = Reply(404, FALSE, "Service not found") /\ UNCHANGED <<services, visits>>
     ELSE IF "name" \in body.fields /\ NameTaken(services, body.name, id)
       THEN res' = Reply(409, FALSE, "Another service already has this name")
            /\ UNCHANGED <<services, visits>>
     ELSE /\ services' = [services EXCEPT ![id] = ApplyPatch(services[id], body)]
          /\ visits' = [k \in DOMAIN visits |->
                          RepricedVisit(visits[k], services[id].name, services'[id].price)]
          /\ res' = Reply(200, TRUE, "")
  /\ UNCHANGED <<razorpay, verifiedPayments, reqs, served, formVars, userVars>>

\* PATCH /api/services/:id
PatchService(id, body) ==
  /\ IF ~IsDoc(services[id])
       THEN res' = Reply(404, FALSE, "Service not found") /\ UNCHANGED services
     ELSE IF "name" \in body.fields /\ NameTaken(services, body.name, id)
       THEN res' = Reply(409, FALSE, "Another service already has this name")
            /\ UNCHANGED services
     ELSE /\ services' = [services EXCEPT ![id] = ApplyPatch(services[id], body)]
          /\ res' = Reply(200, TRUE, "")
  /\ UNCHANGED <<visits, razorpay, verifiedPayments, reqs, served, formVars, userVars>>

\* DELETE /api/services/:id
DeleteService(id) ==
  /\ IF ~IsDoc(services[id])
       THEN res' = Reply(404, FALSE, "Service not found") /\ UNCHANGED services
     ELSE /\ services' = [services EXCEPT ![id].isActive = FALSE]
          /\ res' = Reply(200, TRUE, "Service deactivated successfully")
  /\ UNCHANGED <<visits, razorpay, verifiedPayments, reqs, served, formVars, userVars>>

\* DELETE /api/services/:id/permanent
PermanentDeleteService(id) ==
  /\ IF ~IsDoc(services[id])
       THEN res' = Reply(404, FALSE, "Service not found") /\ UNCHANGED services
     ELSE /\ services' = [services EXCEPT ![id] = Deleted]
          /\ res' = Reply(200, TRUE, "Service permanently deleted")
  /\ UNCHANGED <<visits, razorpay, verifiedPayments, reqs, served, formVars, userVars>>

(***************************************************************************)
(* POST /api/visits as a step                                              *)
(***************************************************************************)
PostVisit(body) ==
  LET out == PostVisitOutcome(services, body) IN
  /\ res' = out.res
  /\ visits' = IF out.visit = NoVisit THEN visits ELSE Append(visits, out.visit)
  /\ UNCHANGED <<services, razorpay, verifiedPayments, userVars>>

(***************************************************************************)
(* Payment verification routes                                             *)
(***************************************************************************)
KeySecret == "key_secret"

\* crypto.createHmac("sha256", key).update(payload).digest("hex"), as a term:
\* two digests are equal exactly when key and payload are.
Hmac(key, payload) == "hmac(" \o key \o "," \o payload \o ")"
hmacSha256(payload) == Hmac(KeySecret, payload)

\* Array.prototype.join renders undefined as the empty string.
Str(v) == IF v = Null THEN "" ELSE v
OrderPayload(o, p) == o \o "|" \o p
LinkPayload(l, ref, st, p) == Str(l) \o "|" \o Str(ref) \o "|" \o Str(st) \o "|" \o Str(p)

Signatures ==
  {Null}
    \cup {hmacSha256(OrderPayload(o, p)) : o \in OrderIds, p \in PaymentIds}
    \cup {Hmac("guess", OrderPayload("order_1", p)) : p \in PaymentIds}
    \cup {hmacSha256(LinkPayload(l, "ref_1", "paid", p)) : l \in LinkIds, p \in PaymentIds}

VerifyOrderBodies ==
  [razorpay_order_id : {Null} \cup OrderIds, razorpay_payment_id : {Null} \cup PaymentIds,
   razorpay_signature : Signatures]

VerifyPaymentQueries ==
  [razorpay_payment_id : {Null} \cup PaymentIds,
   razorpay_payment_link_id : {Null} \cup LinkIds,
   razorpay_payment_link_reference_id : {Null, "ref_1"},
   razorpay_payment_link_status : {"paid"},
   razorpay_signature : Signatures]

\* A handler that skips the signature comparison: C8 must tell it from
\* VerifyOrderPaymentReply.
VerifyOrderPaymentUnchecked(body) ==
  IF Falsy(body.razorpay_order_id) \/ Falsy(body.razorpay_payment_id)
     \/ Falsy(body.razorpay_signature)
    THEN Reply(400, FALSE, "Missing payment parameters")
  ELSE Reply(200, TRUE, "")

\* POST /api/verify-order-payment
VerifyOrderPaymentReply(body) ==
  IF Falsy(body.razorpay_order_id) \/ Falsy(body.razorpay_payment_id)
     \/ Falsy(body.razorpay_signature)
    THEN Reply(400, FALSE, "Missing payment parameters")
  ELSE IF hmacSha256(OrderPayload(body.razorpay_order_id, body.razorpay_payment_id))
            # body.razorpay_signature
    THEN Reply(400, FALSE, "Invalid payment signature")
  ELSE Reply(200, TRUE, "")

VerifyOrderPayment(body) ==
  /\ res' = VerifyOrderPaymentReply(body)
  /\ verifiedPayments' = IF res'.success
                           THEN verifiedPayments \cup {body.razorpay_payment_id}
                           ELSE verifiedPayments
  /\ UNCHANGED <<services, visits, razorpay, userVars>>

\* GET /api/verify-payment; fetchOk is whether razorpay.payments.fetch answers.
VerifyPaymentReply(query, configured, fetchOk) ==
  IF Falsy(query.razorpay_payment_id) \/ Falsy(query.razorpay_payment_link_id)
     \/ Falsy(query.razorpay_signature)
    THEN Reply(400, FALSE, "Missing payment parameters")
  ELSE IF ~configured
    THEN Reply(503, FALSE, "Payment service not configured")
  ELSE IF hmacSha256(LinkPayload(query.razorpay_payment_link_id,
                                 query.razorpay_payment_link_reference_id,
                                 query.razorpay_payment_link_status,
                                 query.razorpay_payment_id))
            # query.razorpay_signature
    THEN Reply(400, FALSE, "Invalid payment signature")
  ELSE IF ~fetchOk
    THEN Reply(500, FALSE, "Failed to fetch payment details")
  ELSE Reply(200, TRUE, "")

VerifyPayment(query, fetchOk) ==
  /\ res' = VerifyPaymentReply(query, razorpay, fetchOk)
  /\ verifiedPayments' = IF res'.success
                           THEN verifiedPayments \cup {query.razorpay_payment_id}
                           ELSE verifiedPayments
  /\ UNCHANGED <<services, visits, razorpay, userVars>>

(***************************************************************************)
(* Spec: the server running freely from an empty database.                 *)
(***************************************************************************)
Init ==
  /\ services = [i \in ServiceIds |-> NoDoc]
  /\ visits = <<>>
  /\ res = NoRes
  /\ razorpay = TRUE
  /\ verifiedPayments = {}
  /\ reqs = <<>>
  /\ served = 0
  /\ NoFormNoStaff

CreateServiceStep ==
  \E name \in Names \cup {""}, price \in Prices \cup {-1} :
    CreateService(name, price)

PatchServiceStep == \E id \in ServiceIds, body \in PatchBodies : PatchService(id, body)

DeleteServiceStep == \E id \in ServiceIds : DeleteService(id)

PermanentDeleteServiceStep == \E id \in ServiceIds : PermanentDeleteService(id)

\* The bodies the free-running server is sent (SpecPost serves all of VisitBodies).
FreeVisitBodies ==
  {b \in VisitBodies :
     /\ b.serviceIds = <<1>>
     /\ b.discountPercent = 41
     /\ b.cashAmount = 200
     /\ b.onlineAmount = 0
     /\ \/ b.paymentMethod = "cash" /\ b.razorpayPaymentId = Null
        \/ b.paymentMethod # "cash" /\ b.razorpayPaymentId = "pay_1"}

FreeVerifyOrderBodies ==
  {b \in VerifyOrderBodies :
     /\ b.razorpay_order_id = "order_1"
     /\ b.razorpay_payment_id = "pay_1"
     /\ b.razorpay_signature \in {hmacSha256(OrderPayload("order_1", "pay_1")),
                                   Hmac("guess", OrderPayload("order_1", "pay_1"))}}

FreeVerifyPaymentQueries ==
  {q \in VerifyPaymentQueries :
     /\ q.razorpay_payment_id = "pay_1"
     /\ q.razorpay_payment_link_id = "plink_1"
     /\ q.razorpay_payment_link_reference_id = "ref_1"
     /\ q.razorpay_signature \in {hmacSha256(LinkPayload("plink_1", "ref_1", "paid", "pay_1")),
                                   Hmac("guess", OrderPayload("order_1", "pay_1"))}}

PostVisitStep ==
  \E body \in FreeVisitBodies :
    /\ Len(visits) < MaxVisits
    /\ PostVisit(body)
    /\ UNCHANGED <<reqs, served, formVars>>

VerifyOrderPaymentStep ==
  \E body \in FreeVerifyOrderBodies : VerifyOrderPayment(body) /\ UNCHANGED <<reqs, served, formVars>>

VerifyPaymentStep ==
  \E query \in FreeVerifyPaymentQueries, fetchOk \in BOOLEAN :
    VerifyPayment(query, fetchOk) /\ UNCHANGED <<reqs, served, formVars>>

Next ==
  \/ CreateServiceStep
  \/ PatchServiceStep
  \/ DeleteServiceStep
  \/ PermanentDeleteServiceStep
  \/ PostVisitStep
  \/ VerifyOrderPaymentStep
  \/ VerifyPaymentStep

Spec == Init /\ [][Next]_vars

(***************************************************************************)
(* SpecPost: POST /api/visits served for a script of requests drawn at the *)
(* start, against a catalog the service routes can have produced.          *)
(***************************************************************************)
\* Catalogs the service routes can leave behind: names are unique.
SeedCatalogs ==
  {c \in [ServiceIds -> ServiceDocs \cup {NoDoc}] :
     \A i, j \in ServiceIds : i # j /\ IsDoc(c[i]) /\ IsDoc(c[j]) => c[i].name # c[j].name}

VisitRoute == "POST /api/visits"
Request(route, body) == [route |-> route, body |-> body]

\* Two bodies that agree on what the bill is computed from.
Agree(a, b) ==
  /\ a.serviceIds = b.serviceIds
  /\ a.discountPercent = b.discountPercent
  /\ a.paymentMethod = b.paymentMethod
  /\ (a.paymentMethod = "partial" => a.cashAmount = b.cashAmount)

\* One body of each class of agreeing bodies: it carries a payment id, no
\* onlineAmount and, outside partial mode, no cashAmount.
Plain(b) ==
  /\ b.razorpayPaymentId = "pay_1"
  /\ b.onlineAmount = 0
  /\ (b.paymentMethod # "partial" => b.cashAmount = 0)

\* The discount percent swept over its whole range on a cash bill.
SweepBodies ==
  [serviceIds : {<<1>>, <<1, 2>>}, discountPercent : 0..100, paymentMethod : {"cash"},
   cashAmount : {0}, onlineAmount : {0}, razorpayPaymentId : {Null}]

\* A plain body followed by another body of its class.
TwinPairs ==
  {p \in {x \in VisitBodies : Plain(x)} \X {y \in VisitBodies : ~Plain(y)} :
     Agree(p[1], p[2])}

VisitScripts ==
  {<<Request(VisitRoute, b)>> : b \in VisitBodies \cup SweepBodies}
    \cup {<<Request(VisitRoute, p[1]), Request(VisitRoute, p[2])>> : p \in TwinPairs}

InitPost ==
  /\ services \in SeedCatalogs
  /\ visits = <<>>
  /\ res = NoRes
  /\ razorpay = TRUE
  /\ verifiedPayments = {}
  /\ reqs \in VisitScripts
  /\ served = 0
  /\ NoFormNoStaff

ServeVisit ==
  /\ served < Len(reqs)
  /\ reqs[served + 1].route = VisitRoute
  /\ PostVisit(reqs[served + 1].body)
  /\ served' = served + 1
  /\ UNCHANGED <<reqs, formVars>>

NextPost == ServeVisit

SpecPost == InitPost /\ [][NextPost]_vars

(***************************************************************************)
(* SpecVerify: one verification request, drawn at the start, served by a   *)
(* server started with or without gateway credentials.                     *)
(***************************************************************************)
VerifyOrderRoute   == "POST /api/verify-order-payment"
VerifyPaymentRoute == "GET /api/verify-payment"

VerifyScripts ==
  {<<Request(VerifyOrderRoute, b)>> : b \in VerifyOrderBodies}
    \cup {<<Request(VerifyPaymentRoute, q)>> : q \in VerifyPaymentQueries}

InitVerify ==
  /\ services \in SeedCatalogs
  /\ visits = <<>>
  /\ res = NoRes
  /\ razorpay \in BOOLEAN
  /\ verifiedPayments = {}
  /\ reqs \in VerifyScripts
  /\ served = 0
  /\ NoFormNoStaff

ServeVerifyOrderPayment ==
  /\ served < Len(reqs)
  /\ reqs[served + 1].route = VerifyOrderRoute
  /\ VerifyOrderPayment(reqs[served + 1].body)
  /\ served' = served + 1
  /\ UNCHANGED <<reqs, formVars>>

ServeVerifyPayment ==
  /\ served < Len(reqs)
  /\ reqs[served + 1].route = VerifyPaymentRoute
  /\ \E fetchOk \in BOOLEAN : VerifyPayment(reqs[served + 1].body, fetchOk)
  /\ served' = served + 1
  /\ UNCHANGED <<reqs, formVars>>

NextVerify == ServeVerifyOrderPayment \/ ServeVerifyPayment

SpecVerify == InitVerify /\ [][NextVerify]_vars

(***************************************************************************)
(* The receptionist form (useVisitForm): the bill it shows.                *)
(***************************************************************************)
discountPct(discount) == Min(100, Max(0, discount))
discountAmt(subtotal, pct) == DiscountAmount(subtotal, pct)
payable(subtotal, amt) == Max(0, subtotal - amt)


(***************************************************************************)
(* Properties.                                                             *)
(***************************************************************************)
\* The request just served, and the Visit a 201 has just created.
LastBody  == reqs[served].body
LastVisit == visits[Len(visits)]
Created   == served >= 1 /\ res.status = 201 /\ Len(visits) >= 1

ActiveRequested(catalog, ids) ==
  {i \in ServiceIds : i \in Range(ids) /\ IsDoc(catalog[i]) /\ catalog[i].isActive}

RECURSIVE PriceTotal(_, _)
PriceTotal(catalog, S) ==
  IF S = {} THEN 0
  ELSE LET i == CHOOSE j \in S : TRUE IN catalog[i].price + PriceTotal(catalog, S \ {i})

\* b lists the same ids as a, the same number of times each, in some order.
Reordered(a, b) ==
  /\ Len(a) = Len(b)
  /\ \A i \in ServiceIds :
       Cardinality({k \in DOMAIN a : a[k] = i}) = Cardinality({k \in DOMAIN b : b[k] = i})

\* C1: after a successful POST /api/visits the persisted subtotal is the sum of
\* the catalog's current prices over the active services whose ids are in
\* serviceIds, and the same request with its serviceIds in any other order
\* persists the same subtotal.
C1_SubtotalIsSumOfActivePrices ==
  Created =>
    /\ LastVisit.subtotal
         = PriceTotal(services, ActiveRequested(services, LastBody.serviceIds))
    /\ \A ids \in [DOMAIN LastBody.serviceIds -> Range(LastBody.serviceIds)] :
         Reordered(LastBody.serviceIds, ids) =>
           LET out == PostVisitOutcome(services, [LastBody EXCEPT !.serviceIds = ids])
           IN  out.res.status = 201 /\ out.visit.subtotal = LastVisit.subtotal

C1_Witness ==
  /\ Created
  /\ LastBody.serviceIds = <<2, 1>>
  /\ Len(LastVisit.services) = 2
  /\ LastVisit.subtotal = 200

\* round(n / d) for non-negative n, in exact arithmetic (halves go up).
ExactRound(n, d) == (2 * n + d) \div (2 * d)

\* C2: every persisted Visit has discountAmount = round(subtotal * discountPercent / 100)
\* and finalTotal = max(0, subtotal - discountAmount), hence finalTotal >= 0.
C2_DiscountIsExactlyRounded ==
  \A k \in DOMAIN visits :
    LET v == visits[k] IN
    /\ v.discountAmount = ExactRound(v.subtotal * v.discountPercent, 100)
    /\ v.finalTotal = Max(0, v.subtotal - v.discountAmount)
    /\ v.finalTotal >= 0

\* The finalTotal the server, and the payable the form, compute for a subtotal
\* and a discount percent.
ServerTotal(subtotal, percent) ==
  FinalTotal(subtotal, DiscountAmount(subtotal, ClampPct(percent)))
FormTotal(subtotal, percent) ==
  payable(subtotal, discountAmt(subtotal, discountPct(percent)))

\* The subtotals for which both totals start at the subtotal, end at 0 and
\* never go up as the percent goes from 0 to 100.
TotalsNonIncreasing(s) ==
  /\ ServerTotal(s, 0) = s /\ FormTotal(s, 0) = s
  /\ ServerTotal(s, 100) = 0 /\ FormTotal(s, 100) = 0
  /\ \A p \in 0..99 :
       /\ ServerTotal(s, p + 1) <= ServerTotal(s, p)
       /\ FormTotal(s, p + 1) <= FormTotal(s, p)

NonIncreasingSubtotals == {s \in PriceSums(MaxServices) : TotalsNonIncreasing(s)}

C4_PartialSplitBothPositive ==
  \A k \in DOMAIN visits :
    LET v == visits[k] IN
    v.paymentMethod = "partial" =>
      /\ v.cashAmount + v.onlineAmount = v.finalTotal
      /\ v.cashAmount > 0
      /\ v.onlineAmount > 0

\* C5: every Visit persisted with paymentMethod = cash has cashAmount = finalTotal,
\* onlineAmount = 0 and razorpayPaymentId = null.
C5_CashModeExclusive ==
  \A k \in DOMAIN visits :
    LET v == visits[k] IN
    v.paymentMethod = "cash" =>
      /\ v.cashAmount = v.finalTotal
      /\ v.onlineAmount = 0
      /\ v.razorpayPaymentId = Null

\* C6: whenever a POST /api/visits is served, every Visit persisted with
\* paymentMethod = online has onlineAmount = finalTotal, cashAmount = 0 and a
\* non-empty razorpayPaymentId; and a request in online or partial mode that
\* carries no razorpayPaymentId is answered 400 and leaves the visits as they were.
C6_OnlineNeedsPaymentId ==
  [][served' = served + 1 =>
       /\ \A k \in DOMAIN visits' :
            LET v == visits'[k] IN
            v.paymentMethod = "online" =>
              /\ v.onlineAmount = v.finalTotal
              /\ v.cashAmount = 0
              /\ v.razorpayPaymentId \notin {Null, ""}
       /\ LET body == reqs[served'].body IN
          body.paymentMethod \in {"online", "partial"}
            /\ body.razorpayPaymentId \in {Null, ""}
          => res'.status = 400 /\ ~res'.success /\ visits' = visits]_vars

C6_Witness ==
  /\ served = 2
  /\ reqs[2].body.paymentMethod = "online"
  /\ reqs[2].body.razorpayPaymentId = ""
  /\ res = Reply(400, FALSE, "Razorpay Payment ID is required for online payment")
  /\ Len(visits) = 1
  /\ visits[1].paymentMethod = "online"
  /\ visits[1].razorpayPaymentId = "pay_1"
  /\ visits[1].onlineAmount = visits[1].finalTotal

\* C7: every Visit with paymentMethod online or partial records a payment id
\* for which a verify route has already answered success.
C7_NonCashVisitWasVerified ==
  \A k \in DOMAIN visits :
    visits[k].paymentMethod \in {"online", "partial"} =>
      visits[k].razorpayPaymentId \in verifiedPayments

\* What the two verify routes require of a request, and whether its signature
\* is the digest of its canonical payload.
VerifyRoutes == {VerifyOrderRoute, VerifyPaymentRoute}

AllPresent(req) ==
  IF req.route = VerifyOrderRoute
    THEN ~(req.body.razorpay_order_id \in {Null, ""}
           \/ req.body.razorpay_payment_id \in {Null, ""}
           \/ req.body.razorpay_signature \in {Null, ""})
    ELSE ~(req.body.razorpay_payment_id \in {Null, ""}
           \/ req.body.razorpay_payment_link_id \in {Null, ""}
           \/ req.body.razorpay_signature \in {Null, ""})

CanonicalPayload(req) ==
  IF req.route = VerifyOrderRoute
    THEN Str(req.body.razorpay_order_id) \o "|" \o Str(req.body.razorpay_payment_id)
    ELSE Str(req.body.razorpay_payment_link_id) \o "|"
           \o Str(req.body.razorpay_payment_link_reference_id) \o "|"
           \o Str(req.body.razorpay_payment_link_status) \o "|"
           \o Str(req.body.razorpay_payment_id)

Mismatch(req) ==
  /\ req.route \in VerifyRoutes
  /\ req.body.razorpay_signature # Hmac(KeySecret, CanonicalPayload(req))

InvalidSignature == Reply(400, FALSE, "Invalid payment signature")

\* C8 as stated: a verify request whose signature is not the digest of its
\* canonical payload is answered 400, success = false, "Invalid payment
\* signature", and nothing persisted changes.
C8_EveryMismatchIsInvalidSignature ==
  served = 1 /\ Mismatch(reqs[1]) =>
    res = InvalidSignature /\ visits = <<>> /\ verifiedPayments = {}

\* C8 amended: a verify request whose signature is not the digest of its
\* canonical payload is never answered success and changes nothing persisted;
\* the answer is 400 "Missing payment parameters" when a required parameter is
\* absent, 503 on verify-payment when the gateway is not configured, and
\* 400 "Invalid payment signature" in every other case.
C8_MismatchIsRejected ==
  [][served' = served + 1 /\ Mismatch(reqs[served']) =>
       LET req == reqs[served'] IN
       /\ ~res'.success
       /\ UNCHANGED <<services, visits, verifiedPayments>>
       /\ res' = IF ~AllPresent(req)
                   THEN Reply(400, FALSE, "Missing payment parameters")
                 ELSE IF req.route = VerifyPaymentRoute /\ ~razorpay
                   THEN Reply(503, FALSE, "Payment service not configured")
                 ELSE InvalidSignature]_vars

C8_Witness ==
  /\ served = 1
  /\ reqs[1].route = VerifyOrderRoute
  /\ reqs[1].body.razorpay_order_id = "order_2"
  /\ reqs[1].body.razorpay_signature = hmacSha256(OrderPayload("order_1", "pay_1"))
  /\ res = InvalidSignature
  /\ verifiedPayments = {}

Billing(v) == <<v.subtotal, v.discountAmount, v.finalTotal, v.cashAmount, v.onlineAmount>>

\* C10: two requests served against the same catalog that agree on serviceIds,
\* discountPercent and paymentMethod (and, in partial mode, on cashAmount) and
\* both persist a Visit persist the same subtotal, discountAmount, finalTotal,
\* cashAmount and onlineAmount, whatever onlineAmount and cashAmount they sent.
C10_BillingIgnoresClientTotals ==
  served = 2 /\ Len(visits) = 2 /\ Agree(reqs[1].body, reqs[2].body) =>
    Billing(visits[1]) = Billing(visits[2])

C10_Witness ==
  /\ served = 2
  /\ Len(visits) = 2
  /\ reqs[1].body.paymentMethod = "online"
  /\ reqs[1].body.onlineAmount = 0
  /\ reqs[2].body.onlineAmount = 7
  /\ reqs[2].body.cashAmount = 496
  /\ visits[2].onlineAmount = visits[2].finalTotal
  /\ visits[2].finalTotal > 7

\* The finalTotal the handler computes for a body against the current catalog.
BodyTotal(body) ==
  ServerTotal(PriceTotal(services, ActiveRequested(services, body.serviceIds)),
              body.discountPercent)

CashMessage == "Cash amount must be between 1 and total minus 1 for partial payment"

\* C11: a partial-mode request whose cash amount is not above 0, is not below
\* finalTotal, or leaves less than 1 for the online portion is answered 400
\* (with the cash-amount message once services and payment id are in order)
\* and creates no Visit.
C11_PartialCashOutOfRangeRejected ==
  served = 1 /\ LastBody.paymentMethod = "partial"
    /\ ( \/ LastBody.cashAmount <= 0
         \/ LastBody.cashAmount >= 10 * BodyTotal(LastBody)
         \/ 10 * BodyTotal(LastBody) - LastBody.cashAmount < 10 )
  => /\ res.status = 400
     /\ visits = <<>>
     /\ ( ActiveRequested(services, LastBody.serviceIds) # {}
            /\ LastBody.razorpayPaymentId \notin {Null, ""}
          => res.error = CashMessage )

\* The payment part of a body needs nothing more than active services.
PaymentInOrder(body) ==
  \/ body.paymentMethod = "cash"
  \/ body.paymentMethod = "online" /\ body.razorpayPaymentId \notin {Null, ""}

\* C12: when a request is served, a Visit it creates bills exactly the active
\* services among its serviceIds, at their current name and price; if some ids
\* do not resolve to an active service and others do, a request whose payment
\* part is in order is still answered 201; if none resolves, the answer is 400
\* and no Visit is created.
C12_InactiveIdsAreFilteredOut ==
  [][served' = served + 1 =>
       LET body   == reqs[served'].body
           active == ActiveRequested(services, body.serviceIds)
       IN  /\ res'.status = 201 =>
                /\ Len(visits') = Len(visits) + 1
                /\ Range(visits'[Len(visits')].services)
                     = {Snapshot(services[i]) : i \in active}
                /\ Len(visits'[Len(visits')].services) = Cardinality(active)
                /\ visits'[Len(visits')].subtotal = PriceTotal(services, active)
           /\ active # {} /\ PaymentInOrder(body) => res'.status = 201
           /\ body.serviceIds # <<>> /\ active = {} =>
                /\ res' = Reply(400, FALSE, "No valid active services found")
                /\ visits' = visits]_vars

C12_Witness ==
  /\ served = 1
  /\ LastBody.serviceIds = <<1, 2>>
  /\ IsDoc(services[1]) /\ ~services[1].isActive
  /\ services[2] = [name |-> "Haircut", price |-> 150, isActive |-> TRUE]
  /\ res.status = 201
  /\ visits[1].services = <<[name |-> "Haircut", price |-> 150]>>
  /\ visits[1].subtotal = 150

(***************************************************************************)
(* The visit form (useVisitForm) and its payment flow.                     *)
(***************************************************************************)

\* GET /api/form-data: id and price of the services active at that moment.
FormData(catalog) ==
  [i \in {j \in ServiceIds : IsDoc(catalog[j]) /\ catalog[j].isActive} |-> catalog[i].price]

\* subtotal: the prices of the selected ids as the dropdown lists them
\* (svc?.price ?? 0), added up in selection order.
RECURSIVE subtotal(_, _)
subtotal(searchService, listed) ==
  IF searchService = <<>> THEN 0
  ELSE (IF Head(searchService) \in DOMAIN listed THEN listed[Head(searchService)] ELSE 0)
         + subtotal(Tail(searchService), listed)

\* Amounts the operator types or the gateway charges are in tenths of a
\* currency unit; the bill itself is in whole units.
Tenths(amount) == 10 * amount

\* What the form shows for its current inputs.
FormSubtotal(c) == subtotal(c.formData.searchService, c.dropdownData)
FormPayable(c)  ==
  payable(FormSubtotal(c), discountAmt(FormSubtotal(c), discountPct(c.formData.discount)))

\* Math.max(0, Math.round(Number(cashAmount) * 100) / 100): an amount given
\* in tenths has at most two decimals already.
cashAmountNum(c) == Max(0, c.formData.cashAmount)

onlinePayable(c) ==
  IF c.formData.paymentMode = "partial" THEN Max(0, Tenths(FormPayable(c)) - cashAmountNum(c))
  ELSE IF c.formData.paymentMode = "cash" THEN 0
  ELSE Tenths(FormPayable(c))

\* validate(): the errors it sets ("" for none); the client details are
\* taken to be filled in correctly.
NoErrors == [amount |-> "", cashAmount |-> ""]

\* A validation that lets an empty selection through: C13 must tell it from
\* validate.
validateSplitOnly(c) ==
  [amount |-> "",
   cashAmount |->
     IF c.formData.paymentMode = "partial" /\ cashAmountNum(c) <= 0
       THEN "Cash amount must be greater than 0" ELSE ""]

validate(c) ==
  [amount |->
     IF FormSubtotal(c) <= 0 THEN "Select at least one service"
     ELSE IF FormPayable(c) <= 0 THEN "Payable amount must be greater than 0"
     ELSE "",
   cashAmount |->
     IF c.formData.paymentMode # "partial" THEN ""
     ELSE IF cashAmountNum(c) <= 0 THEN "Cash amount must be greater than 0"
     ELSE IF cashAmountNum(c) >= Tenths(FormPayable(c)) THEN "Cash amount must be less than payable"
     ELSE IF Tenths(FormPayable(c)) - cashAmountNum(c) < 10 THEN "Online portion must be at least 1"
     ELSE ""]

\* chargeOnline: the amount handed to createOrder.
chargeOnline(c) ==
  IF c.formData.paymentMode = "partial" THEN onlinePayable(c) ELSE Tenths(FormPayable(c))

\* The body persistVisit sends.
persistVisit(c, paymentMethod, razorpayPaymentId, cashAmount, onlineAmount) ==
  [serviceIds        |-> c.formData.searchService,
   discountPercent   |-> discountPct(c.formData.discount),
   paymentMethod     |-> paymentMethod,
   razorpayPaymentId |-> razorpayPaymentId,
   cashAmount        |-> cashAmount,
   onlineAmount      |-> onlineAmount]

VisitBodyOf(c) ==
  IF c.formData.paymentMode = "cash"
    THEN persistVisit(c, "cash", Null, Tenths(FormPayable(c)), 0)
    ELSE persistVisit(c, c.formData.paymentMode, c.result.payment_id,
                      IF c.formData.paymentMode = "partial" THEN cashAmountNum(c) ELSE 0,
                      chargeOnline(c))

\* POST /api/create-order: amount is in tenths of a currency unit, the order
\* in minor units; gatewayOk is whether razorpay.orders.create answers.
AmountInPaise(amount) == 10 * amount

CreateOrderReply(amount, configured, gatewayOk) ==
  IF ~configured THEN Reply(503, FALSE, "Payment service not configured")
  ELSE IF amount = 0 THEN Reply(400, FALSE, "name, phone and amount are required")
  ELSE IF AmountInPaise(amount) < 100 THEN Reply(400, FALSE, "Amount must be at least 1")
  ELSE IF ~gatewayOk THEN Reply(500, FALSE, "Failed to create order")
  ELSE Reply(200, TRUE, "")

CreateOrder(amount, gatewayOk) ==
  /\ res' = CreateOrderReply(amount, razorpay, gatewayOk)
  /\ gateway' = IF res'.success
                  THEN [gateway EXCEPT !.orders =
                          Append(@, [id |-> "order_" \o ToString(Len(gateway.orders) + 1),
                                     amount |-> AmountInPaise(amount)])]
                  ELSE gateway
  /\ UNCHANGED <<services, visits, razorpay, verifiedPayments, userVars>>

\* The server is not reached at all.
ServerIdle ==
  UNCHANGED <<services, visits, res, razorpay, verifiedPayments, userVars>>

\* What becomes of a request: served and answered, served with the answer
\* lost on the way back, or never delivered.
Nets == {"ok", "lost", "down"}

MaxSubmits == 2

\* The helpers of services/api, by what the hook expects of them: createOrder
\* and createVisit throw unless the server answered with success;
\* verifyOrderPayment resolves to a result whose success flag is the server's.
createOrderThrows(net, reply) == ~(net = "ok" /\ reply.success)
createVisitThrows(net, reply) == ~(net = "ok" /\ reply.status = 201)
verifyOrderPayment(net, reply, response) ==
  IF net = "ok" /\ reply.success
    THEN [success |-> TRUE, payment_id |-> response.razorpay_payment_id]
    ELSE [success |-> FALSE]

\* A local or a piece of state that holds nothing yet.
Unset == [none |-> TRUE]

EMPTY_FORM == [searchService |-> <<>>, discount |-> 0, paymentMode |-> "online",
               cashAmount |-> 0]

\* The page mounts and fetchFormData settles.
OpenForm ==
  /\ client = NoClient
  /\ \E fetchOk \in BOOLEAN :
       client' = [pc |-> "idle",
                  dropdownData |-> IF fetchOk THEN FormData(services) ELSE <<>>,
                  formData |-> EMPTY_FORM, errors |-> NoErrors, isLoading |-> FALSE,
                  paymentError |-> Null, order |-> Unset, response |-> Unset,
                  result |-> Unset, navigated |-> Unset, calls |-> <<>>, mark |-> 0,
                  submits |-> 0]
  /\ UNCHANGED gateway
  /\ ServerIdle
  /\ UNCHANGED <<reqs, served>>

\* What the operator can have put in the form: listed services, each at most
\* once; a cash amount in tenths only in partial mode.
Selections(listed) ==
  {<<>>} \cup {sel \in UNION {[1..n -> DOMAIN listed] : n \in 1..MaxServices} :
                 \A i, j \in DOMAIN sel : i # j => sel[i] # sel[j]}
FormInputs(listed) ==
  {fd \in [searchService : Selections(listed), discount : {0, 41},
           paymentMode : PaymentMethods, cashAmount : {0, 200, 204}] :
     fd.paymentMode # "partial" => fd.cashAmount = 0}

\* The submit button is disabled while isLoading.
CanSubmit(c) == ~c.isLoading

\* A catch block that shows the error but leaves the form loading: C14 must
\* tell it from Caught.
CaughtStillLoading(c, message) ==
  [c EXCEPT !.pc = "idle", !.paymentError = message]

\* The catch block of handleSubmit.
Caught(c, message) ==
  [c EXCEPT !.pc = "idle", !.paymentError = message, !.isLoading = FALSE]

Called(c, helper) == [c EXCEPT !.calls = Append(@, helper)]

\* handleSubmit up to its first await.
Started(c) ==
  LET s == [c EXCEPT !.isLoading = TRUE, !.paymentError = Null, !.mark = Len(c.calls),
                     !.order = Unset, !.response = Unset, !.result = Unset]
  IN IF c.formData.paymentMode = "cash"
       THEN Called([s EXCEPT !.pc = "persist"], "createVisit")
       ELSE Called([s EXCEPT !.pc = "sdk"], "loadRazorpayScript")

Submit ==
  /\ client.pc = "idle"
  /\ CanSubmit(client)
  /\ client.submits < MaxSubmits
  /\ \E fd \in FormInputs(client.dropdownData) :
       LET c == [client EXCEPT !.formData = fd, !.submits = @ + 1]
           e == validate(c)
       IN client' = IF e = NoErrors THEN Started([c EXCEPT !.errors = e])
                    ELSE [c EXCEPT !.errors = e]
  /\ UNCHANGED gateway
  /\ ServerIdle
  /\ UNCHANGED <<reqs, served>>

\* loadRazorpayScript settles.
LoadSdk ==
  /\ client.pc = "sdk"
  /\ \E loaded \in BOOLEAN :
       client' = IF loaded THEN Called([client EXCEPT !.pc = "order"], "createOrder")
                 ELSE Caught(client, "Failed to load Razorpay SDK. Check your connection.")
  /\ UNCHANGED gateway
  /\ ServerIdle
  /\ UNCHANGED <<reqs, served>>

\* createOrder settles; on success the checkout modal opens.
RequestOrder ==
  /\ client.pc = "order"
  /\ \E net \in Nets, gatewayOk \in BOOLEAN :
       /\ IF net = "down" THEN ServerIdle /\ UNCHANGED gateway
          ELSE CreateOrder(chargeOnline(client), gatewayOk)
       /\ client' = IF createOrderThrows(net, res')
                      THEN Caught(client, "Failed to create order")
                      ELSE [client EXCEPT !.pc = "checkout",
                                          !.order = gateway'.orders[Len(gateway'.orders)]]
  /\ UNCHANGED <<reqs, served>>

\* modal.ondismiss
Dismiss ==
  /\ client.pc = "checkout"
  /\ client' = Caught(client, "Payment was cancelled. Please try again.")
  /\ UNCHANGED gateway
  /\ ServerIdle
  /\ UNCHANGED <<reqs, served>>

\* The customer pays in the modal: the gateway collects the order's amount and
\* hands the signed descriptor to handler, which calls verifyOrderPayment.
\* sameSecret is whether the server holds the secret the gateway signs with.
Pay ==
  /\ client.pc = "checkout"
  /\ \E sameSecret \in BOOLEAN :
       LET pid == "pay_" \o ToString(Len(gateway.payments) + 1)
           oid == client.order.id
       IN /\ gateway' = [gateway EXCEPT !.payments =
                           Append(@, [id |-> pid, order |-> oid,
                                      amount |-> client.order.amount])]
          /\ client' = Called([client EXCEPT
                                 !.pc = "verify",
                                 !.response =
                                   [razorpay_order_id   |-> oid,
                                    razorpay_payment_id |-> pid,
                                    razorpay_signature  |->
                                      Hmac(IF sameSecret THEN KeySecret ELSE "rotated",
                                           OrderPayload(oid, pid))]],
                              "verifyOrderPayment")
  /\ ServerIdle
  /\ UNCHANGED <<reqs, served>>

\* verifyOrderPayment settles.
RequestVerify ==
  /\ client.pc = "verify"
  /\ \E net \in Nets :
       /\ IF net = "down" THEN ServerIdle ELSE VerifyOrderPayment(client.response)
       /\ LET result == verifyOrderPayment(net, res', client.response) IN
          client' =
            IF result.success
              THEN Called([client EXCEPT !.pc = "persist", !.result = result], "createVisit")
              ELSE [client EXCEPT !.pc = "idle", !.result = result,
                                  !.paymentError =
                                    "Payment verification failed. Contact support.",
                                  !.isLoading = FALSE]
  /\ UNCHANGED <<gateway, reqs, served>>

\* A flow that reports a failed createVisit as a payment error instead of
\* redirecting: C15 must tell it from Navigated.
NavigatedUnlessFailed(c, visitRecordFailed) ==
  IF visitRecordFailed
    THEN [c EXCEPT !.pc = "idle", !.paymentError = "Visit could not be recorded",
                   !.isLoading = FALSE]
    ELSE [c EXCEPT !.pc = "gone",
                   !.navigated = [path |-> "/payment-status", payment_id |-> "CASH",
                                  method |-> c.formData.paymentMode,
                                  visit_warning |-> FALSE]]

\* A flow that calls createVisit again when it failed: C16 must tell it from
\* Navigated.
NavigatedOrRetried(c, visitRecordFailed) ==
  IF visitRecordFailed THEN Called(c, "createVisit")
  ELSE [c EXCEPT !.pc = "gone",
                 !.navigated = [path |-> "/payment-status", payment_id |-> "CASH",
                                method |-> c.formData.paymentMode,
                                visit_warning |-> FALSE]]

\* After createVisit settled: the redirect to /payment-status.
Navigated(c, visitRecordFailed) ==
  [c EXCEPT !.pc = "gone",
            !.navigated = [path |-> "/payment-status",
                           payment_id |-> IF c.formData.paymentMode = "cash" THEN "CASH"
                                          ELSE c.result.payment_id,
                           method |-> c.formData.paymentMode,
                           visit_warning |-> visitRecordFailed]]

\* createVisit settles.
RequestVisit ==
  /\ client.pc = "persist"
  /\ \E net \in Nets :
       /\ IF net = "down" THEN ServerIdle
          ELSE PostVisit(VisitBodyOf(client))
       /\ client' = Navigated(client, createVisitThrows(net, res'))
  /\ UNCHANGED <<gateway, reqs, served>>

(***************************************************************************)
(* SpecForm: one receptionist at the visit form, the owner editing the     *)
(* catalog meanwhile.                                                      *)
(***************************************************************************)
FormCatalogs ==
  {c \in SeedCatalogs :
     /\ c[1] = [name |-> "Haircut", price |-> 50, isActive |-> TRUE]
     /\ \A i \in ServiceIds \ {1} :
          c[i] = [name |-> "Shave", price |-> 150, isActive |-> TRUE]}

InitForm ==
  /\ services \in FormCatalogs
  /\ visits = <<>>
  /\ res = NoRes
  /\ razorpay \in BOOLEAN
  /\ verifiedPayments = {}
  /\ reqs = <<>>
  /\ served = 0
  /\ client = NoClient
  /\ gateway = NoGateway
  /\ users = <<>> /\ artists = <<>> /\ seeding = <<>> /\ sessions = <<>>

\* The owner reprices or deactivates the first service.
OwnerEdit ==
  \/ \E body \in {b \in PatchBodies : b.fields = {"price"} /\ b.price = 150} :
       PatchService(1, body)
  \/ DeleteService(1)

FormSteps ==
  \/ OpenForm
  \/ Submit
  \/ LoadSdk
  \/ RequestOrder
  \/ Dismiss
  \/ Pay
  \/ RequestVerify
  \/ RequestVisit

NextForm == FormSteps \/ OwnerEdit

SpecForm == InitForm /\ [][NextForm]_vars

(***************************************************************************)
(* SpecEntry: the receptionist at the form while a request with no         *)
(* services is sent to POST /api/visits without the form.                  *)
(***************************************************************************)
InitEntry ==
  /\ services \in FormCatalogs
  /\ visits = <<>>
  /\ res = NoRes
  /\ razorpay = TRUE
  /\ verifiedPayments = {}
  /\ reqs \in {<<Request(VisitRoute, b)>> :
                 b \in {x \in VisitBodies : x.serviceIds = <<>> /\ Plain(x)
                                               /\ x.discountPercent = 41}}
  /\ served = 0
  /\ client = NoClient
  /\ gateway = NoGateway
  /\ users = <<>> /\ artists = <<>> /\ seeding = <<>> /\ sessions = <<>>

NextEntry == FormSteps \/ ServeVisit

SpecEntry == InitEntry /\ [][NextEntry]_vars

(***************************************************************************)
(* Properties of the visit form and its payment flow.                      *)
(***************************************************************************)
\* A press of the submit button, as a step.
Submitted == client.pc = "idle" /\ client'.pc # "closed" /\ client'.submits = client.submits + 1

FlowCalls(c) == SubSeq(c.calls, c.mark + 1, Len(c.calls))
CallsOf(c, helper) == Cardinality({i \in DOMAIN FlowCalls(c) : FlowCalls(c)[i] = helper})

\* C13: submitting the form with no service selected sets the error "Select at
\* least one service" and ends the flow with no helper called, no gateway order
\* and no Visit; a POST /api/visits with an empty serviceIds array is answered
\* 400 and creates no Visit.
C13_NoServicesNothingCreated ==
  [][/\ (Submitted /\ client'.formData.searchService = <<>>
           => /\ client'.errors.amount = "Select at least one service"
              /\ client'.pc = "idle" /\ ~client'.isLoading
              /\ client'.calls = client.calls
              /\ gateway' = gateway
              /\ visits' = visits)
     /\ (served' = served + 1 /\ reqs[served'].body.serviceIds = <<>>
           => res'.status = 400 /\ visits' = visits)]_vars

C13_Witness ==
  /\ client.pc = "idle"
  /\ client.submits = 1
  /\ client.formData.searchService = <<>>
  /\ client.formData.paymentMode = "cash"
  /\ client.errors.amount = "Select at least one service"
  /\ client.calls = <<>>
  /\ served = 1
  /\ res = Reply(400, FALSE, "At least one service is required")
  /\ visits = <<>>
  /\ gateway = NoGateway

\* The stage that follows each stage of the online flow when nothing fails.
Advance == [sdk |-> "order", order |-> "checkout", checkout |-> "verify", verify |-> "persist"]

C15_FailedVisitStillRedirectsWithWarning ==
  [][/\ (client.pc = "persist" /\ client' # client /\ visits' = visits
           => /\ client'.pc = "gone"
              /\ client'.navigated.path = "/payment-status"
              /\ client'.navigated.visit_warning
              /\ client'.navigated.payment_id =
                   (IF client.formData.paymentMode = "cash" THEN "CASH"
                    ELSE client.result.payment_id)
              /\ client'.paymentError = Null
              /\ CallsOf(client', "createVisit") = 1
              /\ gateway' = gateway
              /\ verifiedPayments' = verifiedPayments)
     /\ (client.pc = "gone" => client' = client /\ gateway' = gateway)]_vars

C15_Witness ==
  /\ client.pc = "gone"
  /\ client.formData.paymentMode = "online"
  /\ client.navigated.visit_warning
  /\ client.navigated.payment_id = "pay_1"
  /\ "pay_1" \in verifiedPayments
  /\ Len(gateway.payments) = 1
  /\ CallsOf(client, "createVisit") = 1
  /\ visits = <<>>

\* createVisit calls over the whole form entry, and the cash recordings in it.
VisitCalls(c) == Cardinality({i \in DOMAIN c.calls : c.calls[i] = "createVisit"})
CashRecordings(c) ==
  IF c.formData.paymentMode = "cash" /\ c.pc \in {"persist", "gone"} THEN 1 ELSE 0

\* C16: over one form entry createVisit is called at most once in a flow and
\* at most once per payment the gateway collected or cash recording, no Visit
\* exists without a call, and when the form has redirected without a warning
\* createVisit was called exactly once and exactly one Visit exists, that of
\* this flow.
C16_OneVisitPerSuccessfulFlow ==
  client.pc # "closed" =>
    /\ CallsOf(client, "createVisit") <= 1
    /\ VisitCalls(client) <= Len(gateway.payments) + CashRecordings(client)
    /\ Len(visits) <= VisitCalls(client)
    /\ (client.pc = "gone" /\ ~client.navigated.visit_warning
          => /\ VisitCalls(client) = 1
             /\ Len(visits) = 1
             /\ visits[1].paymentMethod = client.formData.paymentMode
             /\ (client.formData.paymentMode # "cash"
                   => visits[1].razorpayPaymentId = client.navigated.payment_id))

C16_Witness ==
  /\ client.pc = "gone"
  /\ ~client.navigated.visit_warning
  /\ client.formData.paymentMode = "partial"
  /\ client.submits = 2
  /\ Len(gateway.orders) = 2
  /\ Len(gateway.payments) = 2
  /\ VisitCalls(client) = 1
  /\ Len(visits) = 1

\* C17: for every persisted non-cash Visit the gateway collected a payment with
\* the Visit's payment id whose order amount, in minor units, is the Visit's
\* onlineAmount.
C17_PaidOrderEqualsOnlineAmount ==
  \A k \in DOMAIN visits :
    visits[k].paymentMethod # "cash"
      => \E i \in DOMAIN gateway.payments :
           /\ gateway.payments[i].id = visits[k].razorpayPaymentId
           /\ gateway.payments[i].amount = 100 * visits[k].onlineAmount

(***************************************************************************)
(* SpecCalc: the bill of one selection computed twice, by the hook and by  *)
(* POST /api/visits, over prices with a decimal part (the price rule is    *)
(* isFloat({ min: 0 })).  Prices are drawn in tenths and become Numbers.   *)
(***************************************************************************)
MaxSelected == 3

\* reduce((sum, x) => sum + x, acc)
RECURSIVE NumSum(_, _)
NumSum(acc, xs) == IF xs = <<>> THEN acc ELSE NumSum(FlAdd(acc, Head(xs)), Tail(xs))

\* subtotal, discountPct, discountAmt and payable of the hook: the listed
\* prices of the selected ids, added in selection order.
HookBill(listed, searchService, discount) ==
  LET sub == NumSum([m |-> <<>>, e |-> 0],
                    [i \in DOMAIN searchService |->
                       IF searchService[i] \in DOMAIN listed THEN listed[searchService[i]]
                       ELSE [m |-> <<>>, e |-> 0]])
      amt == MathRound(FlTimes(sub, PctFraction[discountPct(discount)]))
  IN  [subtotal |-> sub, discountAmt |-> amt, payable |-> FlMinus(sub, amt)]

\* subtotal, pct, discountAmount and finalTotal of the server: the prices of
\* the documents Service.find returns, once each, in collection order.
ServerBill(catalog, serviceIds, discountPercent) ==
  LET docs == SelectSeq([i \in DOMAIN catalog |-> [id |-> i, price |-> catalog[i]]],
                        LAMBDA d : d.id \in Range(serviceIds))
      sub  == NumSum([m |-> <<>>, e |-> 0], [i \in DOMAIN docs |-> docs[i].price])
      amt  == MathRound(FlTimes(sub, PctFraction[ClampPct(discountPercent)]))
  IN  [subtotal |-> sub, discountAmount |-> amt, finalTotal |-> FlMinus(sub, amt)]

\* A price list of active services, a selection of distinct listed ids in
\* the order they were picked, and a discount percent.
InitCalc ==
  /\ reqs \in {<<Request("bill", [prices |-> [i \in DOMAIN pl |-> FlDiv(pl[i], 10)],
                                  searchService |-> sel, discount |-> pct])>> :
                 pl \in [1..MaxSelected -> {1, 2, 3}],
                 sel \in {q \in UNION {[1..n -> 1..MaxSelected] : n \in 1..MaxSelected} :
                            \A i, j \in DOMAIN q : i # j => q[i] # q[j]},
                 pct \in DiscountPercents}
  /\ served = 0
  /\ services = [i \in ServiceIds |-> NoDoc]
  /\ visits = <<>>
  /\ res = NoRes
  /\ razorpay = TRUE
  /\ verifiedPayments = {}
  /\ NoFormNoStaff

Calculate ==
  /\ served = 0
  /\ served' = 1
  /\ LET b == reqs[1].body IN
     res' = [hook   |-> HookBill(b.prices, b.searchService, b.discount),
             server |-> ServerBill(b.prices, b.searchService, b.discount)]
  /\ UNCHANGED <<services, visits, razorpay, verifiedPayments, reqs, formVars, userVars>>

SpecCalc == InitCalc /\ [][Calculate]_vars

\* C18: for the same price list, the same selected active ids and the same
\* discount percent, the hook's subtotal, discountAmt and payable are the
\* server's subtotal, discountAmount and finalTotal.
C18_HookAndServerAgree ==
  served = 1 =>
    /\ FlEq(res.hook.subtotal, res.server.subtotal)
    /\ res.hook.discountAmt = res.server.discountAmount
    /\ FlEq(res.hook.payable, res.server.finalTotal)

(***************************************************************************)
(* The User collection and the owner seeding of index.js.                  *)
(***************************************************************************)
\* OWNER_EMAIL and OWNER_PASSWORD of the environment; a stored password
\* stands for its bcrypt hash.
OwnerEmail    == "owner@salon.test"
OwnerPassword == "owner-secret"

\* The unique index on User.email.
EmailTaken(us, email, except) ==
  \E i \in DOMAIN us : i # except /\ IsDoc(us[i]) /\ us[i].email = email

\* A sync that leaves a deactivated owner deactivated: C19 must tell it from
\* Synced.
SyncedCredentialsOnly(doc) ==
  [doc EXCEPT !.email = OwnerEmail, !.name = "Salon Owner", !.password = OwnerPassword]

\* The existing owner after ensureOwner synced it with the environment.
Synced(doc) ==
  [doc EXCEPT !.email = OwnerEmail, !.name = "Salon Owner", !.password = OwnerPassword,
              !.isActive = TRUE]

(***************************************************************************)
(* SpecSeed: server processes, each serving requests that pass through the *)
(* owner-seed middleware; every await of ensureOwner is a step.            *)
(***************************************************************************)
MaxProcs    == 2
MaxAttempts == 2

\* An entry that neither looks at ownerSeeded nor sets it: C25 must tell it
\* from SeedEnter.
SeedEnterUnflagged(p, a) ==
  /\ seeding[p].at[a].pc = "new"
  /\ seeding' = [seeding EXCEPT ![p].at[a].pc = "connect"]
  /\ UNCHANGED users
  /\ UNCHANGED <<services, visits, res, razorpay, verifiedPayments, reqs, served,
                 formVars, artists, sessions>>

\* ensureOwner is entered: it returns at once when the process has
\* ownerSeeded set, and sets it otherwise.
SeedEnter(p, a) ==
  /\ seeding[p].at[a].pc = "new"
  /\ seeding' = IF seeding[p].ownerSeeded
                  THEN [seeding EXCEPT ![p].at[a].pc = "skipped"]
                  ELSE [seeding EXCEPT ![p].ownerSeeded = TRUE, ![p].at[a].pc = "connect"]
  /\ UNCHANGED users
  /\ UNCHANGED <<services, visits, res, razorpay, verifiedPayments, reqs, served,
                 formVars, artists, sessions>>

\* await connectDB() and await User.findOne({ role: "owner" }): existing is
\* the owner found (0 for none); a failure ends in the catch block.
SeedFind(p, a) ==
  /\ seeding[p].at[a].pc = "connect"
  /\ \E dbOk \in BOOLEAN :
       seeding' =
         IF ~dbOk
           THEN [seeding EXCEPT ![p].ownerSeeded = FALSE, ![p].at[a].pc = "failed"]
         ELSE LET owners == {i \in DOMAIN users : IsDoc(users[i]) /\ users[i].role = "owner"}
              IN  [seeding EXCEPT ![p].at[a] =
                     [pc |-> "write",
                      existing |-> IF owners = {} THEN 0
                                   ELSE CHOOSE i \in owners : \A j \in owners : i <= j,
                      changed  |-> owners # {} /\
                                   LET o == users[CHOOSE i \in owners : \A j \in owners : i <= j]
                                   IN  Synced(o) # o]]
  /\ UNCHANGED users
  /\ UNCHANGED <<services, visits, res, razorpay, verifiedPayments, reqs, served,
                 formVars, artists, sessions>>

\* await existing.save() or await User.create(...): the write fails when
\* the database does or when another document holds the email.
SeedWrite(p, a) ==
  /\ seeding[p].at[a].pc = "write"
  /\ \E dbOk \in BOOLEAN :
     LET at == seeding[p].at[a]
         fails == (at.existing = 0 \/ at.changed)
                    /\ (~dbOk \/ EmailTaken(users, OwnerEmail, at.existing))
     IN
     /\ users' = IF fails \/ (at.existing # 0 /\ ~at.changed) THEN users
                 ELSE IF at.existing # 0
                   THEN [users EXCEPT ![at.existing] = Synced(@)]
                 ELSE Append(users, [email |-> OwnerEmail, name |-> "Salon Owner",
                                     password |-> OwnerPassword, role |-> "owner",
                                     isActive |-> TRUE])
     /\ seeding' = IF fails
                     THEN [seeding EXCEPT ![p].ownerSeeded = FALSE, ![p].at[a].pc = "failed"]
                     ELSE [seeding EXCEPT ![p].at[a].pc = "done"]
  /\ UNCHANGED <<services, visits, res, razorpay, verifiedPayments, reqs, served,
                 formVars, artists, sessions>>

\* The User collection a deployment can start from: empty, or holding an
\* owner seeded from an earlier environment, possibly deactivated since.
InitSeed ==
  /\ users \in {<<>>} \cup
       {<<[email |-> e, name |-> n, password |-> pw, role |-> "owner", isActive |-> act]>> :
          e \in {OwnerEmail, "old@salon.test"}, n \in {"Salon Owner", "Boss"},
          pw \in {OwnerPassword, "old-secret"}, act \in BOOLEAN}
  /\ seeding = [p \in 1..MaxProcs |->
                  [ownerSeeded |-> FALSE,
                   at |-> [a \in 1..MaxAttempts |-> [pc |-> "new", existing |-> 0,
                                                      changed |-> FALSE]]]]
  /\ artists = <<>>
  /\ sessions = <<>>
  /\ services = [i \in ServiceIds |-> NoDoc]
  /\ visits = <<>>
  /\ res = NoRes
  /\ razorpay = TRUE
  /\ verifiedPayments = {}
  /\ reqs = <<>>
  /\ served = 0
  /\ client = NoClient
  /\ gateway = NoGateway

NextSeed ==
  \/ \E p \in 1..MaxProcs, a \in 1..MaxAttempts : SeedEnter(p, a)
  \/ \E p \in 1..MaxProcs, a \in 1..MaxAttempts : SeedFind(p, a)
  \/ \E p \in 1..MaxProcs, a \in 1..MaxAttempts : SeedWrite(p, a)

SpecSeed == InitSeed /\ [][NextSeed]_vars

(***************************************************************************)
(* SpecUsers: the owner, logged in, calling the admin user routes and the  *)
(* artist route.  A route id is a document's ObjectId in some spelling:    *)
(* asStored is whether it is the lower-case hex that _id.toString() gives  *)
(* (and req.session.userId holds); findById casts either spelling to the   *)
(* same ObjectId.                                                          *)
(***************************************************************************)
MaxUsers == 3

\* POST /api/admin/users
PostUser(body) ==
  /\ Len(users) < MaxUsers
  /\ IF body.role \notin {"receptionist", "manager"}
       THEN res' = Reply(400, FALSE, "Role must be receptionist or manager")
            /\ UNCHANGED users
     ELSE IF EmailTaken(users, toLowerCase(body.email), 0)
       THEN res' = Reply(409, FALSE, "A user with this email already exists")
            /\ UNCHANGED users
     ELSE /\ users' = Append(users, [email |-> toLowerCase(body.email), name |-> "Staff",
                                     password |-> "staff-secret", role |-> body.role,
                                     isActive |-> TRUE])
          /\ res' = Reply(201, TRUE, "")
  /\ UNCHANGED <<services, visits, razorpay, verifiedPayments, reqs, served, formVars,
                 artists, seeding, sessions>>

\* PATCH /api/admin/users/:id, the session being that of user 1.
PatchUser(id, asStored, body) ==
  /\ IF "role" \in body.fields /\ body.role \notin {"receptionist", "manager"}
       THEN res' = Reply(400, FALSE, "Role must be receptionist or manager")
            /\ UNCHANGED users
     ELSE IF id \notin DOMAIN users \/ ~IsDoc(users[id])
       THEN res' = Reply(404, FALSE, "User not found") /\ UNCHANGED users
     ELSE IF id = 1 /\ asStored /\ "role" \in body.fields
       THEN res' = Reply(400, FALSE, "Cannot change your own role") /\ UNCHANGED users
     ELSE IF "email" \in body.fields /\ EmailTaken(users, toLowerCase(body.email), id)
       THEN res' = Reply(409, FALSE, "A user with this email already exists")
            /\ UNCHANGED users
     ELSE /\ users' = [users EXCEPT ![id] =
                         [@ EXCEPT !.email = IF "email" \in body.fields
                                               THEN toLowerCase(body.email) ELSE @,
                                   !.role = IF "role" \in body.fields THEN body.role ELSE @,
                                   !.isActive = IF "isActive" \in body.fields
                                                  THEN body.isActive ELSE @]]
          /\ res' = Reply(200, TRUE, "")
  /\ UNCHANGED <<services, visits, razorpay, verifiedPayments, reqs, served, formVars,
                 artists, seeding, sessions>>

\* DELETE /api/admin/users/:id
DeleteUser(id, asStored) ==
  /\ IF id \notin DOMAIN users \/ ~IsDoc(users[id])
       THEN res' = Reply(404, FALSE, "User not found") /\ UNCHANGED users
     ELSE IF id = 1 /\ asStored
       THEN res' = Reply(400, FALSE, "Cannot deactivate your own account")
            /\ UNCHANGED users
     ELSE /\ users' = [users EXCEPT ![id].isActive = FALSE]
          /\ res' = Reply(200, TRUE, "User deactivated successfully")
  /\ UNCHANGED <<services, visits, razorpay, verifiedPayments, reqs, served, formVars,
                 artists, seeding, sessions>>

\* DELETE /api/admin/users/:id/permanent
PermanentDeleteUser(id, asStored) ==
  /\ IF id \notin DOMAIN users \/ ~IsDoc(users[id])
       THEN res' = Reply(404, FALSE, "User not found") /\ UNCHANGED users
     ELSE IF id = 1 /\ asStored
       THEN res' = Reply(400, FALSE, "Cannot delete your own account") /\ UNCHANGED users
     ELSE IF users[id].role = "owner"
       THEN res' = Reply(400, FALSE, "Cannot delete the owner account") /\ UNCHANGED users
     ELSE /\ users' = [users EXCEPT ![id] = Deleted]
          /\ res' = Reply(200, TRUE, "User permanently deleted")
  /\ UNCHANGED <<services, visits, razorpay, verifiedPayments, reqs, served, formVars,
                 artists, seeding, sessions>>

PhoneTaken(directory, phone, except) ==
  \E i \in DOMAIN directory :
    i # except /\ IsDoc(directory[i]) /\ directory[i].phone = phone

\* POST /api/artists: with an email and a password it first creates the
\* linked User with role "artist", one of the four roles of a User.  userId 0
\* is no linked account.
PostArtist(body) ==
  /\ Len(artists) < MaxUsers
  /\ LET account == ~Falsy(body.email) /\ ~Falsy(body.password) IN
     IF PhoneTaken(artists, body.phone, 0)
       THEN res' = Reply(409, FALSE, "An artist with this phone number already exists")
            /\ UNCHANGED <<users, artists>>
     ELSE IF account /\ EmailTaken(users, toLowerCase(body.email), 0)
       THEN res' = Reply(409, FALSE, "A user with this email already exists")
            /\ UNCHANGED <<users, artists>>
     ELSE /\ users' = IF account
                        THEN Append(users, [email |-> toLowerCase(body.email),
                                            name |-> body.name, password |-> body.password,
                                            role |-> "artist", isActive |-> TRUE])
                        ELSE users
          /\ artists' = Append(artists,
                               [name |-> body.name, phone |-> body.phone,
                                email |-> IF Falsy(body.email) THEN Null
                                          ELSE toLowerCase(body.email),
                                commission |-> body.commission,
                                userId |-> IF account THEN Len(users') ELSE 0,
                                isActive |-> TRUE])
          /\ res' = Reply(201, TRUE, "")
  /\ UNCHANGED <<services, visits, razorpay, verifiedPayments, reqs, served, formVars,
                 seeding, sessions>>

\* User.findByIdAndUpdate on the linked account, which may be gone already.
LinkedUser(userId, field, value) ==
  IF userId \in DOMAIN users /\ IsDoc(users[userId])
    THEN [users EXCEPT ![userId] = [@ EXCEPT ![field] = value]]
    ELSE users

\* User.findByIdAndDelete on the linked account.
LinkedUserDeleted(userId) ==
  IF userId \in DOMAIN users /\ IsDoc(users[userId])
    THEN [users EXCEPT ![userId] = Deleted]
    ELSE users

\* PATCH /api/artists/:id
PatchArtist(id, body) ==
  /\ IF id \notin DOMAIN artists \/ ~IsDoc(artists[id])
       THEN res' = Reply(404, FALSE, "Artist not found") /\ UNCHANGED <<users, artists>>
     ELSE IF "phone" \in body.fields /\ PhoneTaken(artists, body.phone, id)
       THEN res' = Reply(409, FALSE, "Another artist already has this phone number")
            /\ UNCHANGED <<users, artists>>
     ELSE /\ artists' = [artists EXCEPT ![id] =
                           [@ EXCEPT !.name = IF "name" \in body.fields THEN body.name ELSE @,
                                     !.phone = IF "phone" \in body.fields
                                                 THEN body.phone ELSE @,
                                     !.isActive = IF "isActive" \in body.fields
                                                    THEN body.isActive ELSE @,
                                     !.commission = IF "commission" \in body.fields
                                                      THEN body.commission ELSE @]]
          /\ users' = IF artists[id].userId # 0 /\ "name" \in body.fields
                        THEN LinkedUser(artists[id].userId, "name", body.name)
                        ELSE users
          /\ res' = Reply(200, TRUE, "")
  /\ UNCHANGED <<services, visits, razorpay, verifiedPayments, reqs, served, formVars,
                 seeding, sessions>>

\* DELETE /api/artists/:id
DeleteArtist(id) ==
  /\ IF id \notin DOMAIN artists \/ ~IsDoc(artists[id])
       THEN res' = Reply(404, FALSE, "Artist not found") /\ UNCHANGED <<users, artists>>
     ELSE /\ artists' = [artists EXCEPT ![id].isActive = FALSE]
          /\ users' = IF artists[id].userId # 0
                        THEN LinkedUser(artists[id].userId, "isActive", FALSE)
                        ELSE users
          /\ res' = Reply(200, TRUE, "Artist deactivated successfully")
  /\ UNCHANGED <<services, visits, razorpay, verifiedPayments, reqs, served, formVars,
                 seeding, sessions>>

\* DELETE /api/artists/:id/permanent
PermanentDeleteArtist(id) ==
  /\ IF id \notin DOMAIN artists \/ ~IsDoc(artists[id])
       THEN res' = Reply(404, FALSE, "Artist not found") /\ UNCHANGED <<users, artists>>
     ELSE /\ users' = IF artists[id].userId # 0
                        THEN LinkedUserDeleted(artists[id].userId)
                        ELSE users
          /\ artists' = [artists EXCEPT ![id] = Deleted]
          /\ res' = Reply(200, TRUE, "Artist permanently deleted")
  /\ UNCHANGED <<services, visits, razorpay, verifiedPayments, reqs, served, formVars,
                 seeding, sessions>>

\* The seeded owner is user 1 and is logged in.
InitUsers ==
  /\ users = <<[email |-> OwnerEmail, name |-> "Salon Owner", password |-> OwnerPassword,
                role |-> "owner", isActive |-> TRUE]>>
  /\ artists = <<>>
  /\ seeding = <<>>
  /\ sessions = <<[userId |-> 1, role |-> "owner"]>>
  /\ services = [i \in ServiceIds |-> NoDoc]
  /\ visits = <<>>
  /\ res = NoRes
  /\ razorpay = TRUE
  /\ verifiedPayments = {}
  /\ reqs = <<>>
  /\ served = 0
  /\ client = NoClient
  /\ gateway = NoGateway

NextUsers ==
  \/ \E body \in [email : {OwnerEmail, "staff@salon.test"},
                  role : {"receptionist", "manager", "owner"}] : PostUser(body)
  \/ \E id \in 1..MaxUsers, asStored \in BOOLEAN,
        body \in [fields : SUBSET {"role", "isActive"},
                  role : {"receptionist", "manager", "owner"}, isActive : BOOLEAN] :
       PatchUser(id, asStored, body)
  \/ \E id \in 1..MaxUsers, asStored \in BOOLEAN : DeleteUser(id, asStored)
  \/ \E id \in 1..MaxUsers, asStored \in BOOLEAN : PermanentDeleteUser(id, asStored)
  \/ \E body \in [name : {"Asha"}, phone : {"9000000001", "9000000002"},
                  email : {Null, "artist@salon.test"}, password : {"artist-secret"},
                  commission : {30}] : PostArtist(body)

SpecUsers == InitUsers /\ [][NextUsers]_vars

(***************************************************************************)
(* Properties of the owner account.                                        *)
(***************************************************************************)
Owners(us) == {i \in DOMAIN us : IsDoc(us[i]) /\ us[i].role = "owner"}

\* The ensureOwner attempts that are in a given position.
AttemptsAt(pcs) ==
  {pa \in (1..MaxProcs) \X (1..MaxAttempts) : seeding[pa[1]].at[pa[2]].pc \in pcs}

\* C19: there is never more than one owner, and once every ensureOwner attempt
\* that was started has completed, concurrent in one process or spread over
\* several, and one of them ran to its end, exactly one User has role owner,
\* it is active and it carries the configured email and the name
\* "Salon Owner".
C19_OwnerSeedingConverges ==
  /\ Cardinality(Owners(users)) <= 1
  /\ (AttemptsAt({"connect", "write"}) = {} /\ AttemptsAt({"done"}) # {}
        => \E i \in DOMAIN users :
             /\ Owners(users) = {i}
             /\ users[i].isActive
             /\ users[i].email = OwnerEmail
             /\ users[i].name = "Salon Owner")

\* C19 as stated: once every started attempt has completed, however it ended,
\* exactly one User has role owner, active, with the configured email and name.
C19_OwnerExistsAfterAnyAttempt ==
  AttemptsAt({"connect", "write"}) = {} /\ AttemptsAt({"done", "failed", "skipped"}) # {}
    => \E i \in DOMAIN users :
         /\ Owners(users) = {i}
         /\ users[i].isActive
         /\ users[i].email = OwnerEmail
         /\ users[i].name = "Salon Owner"

C19_Witness ==
  /\ AttemptsAt({"new", "connect", "write"}) = {}
  /\ seeding[1].at[1].pc = "done" /\ seeding[1].at[1].existing = 0
  /\ seeding[1].at[2].pc = "skipped"
  /\ seeding[2].at[1].pc = "failed"
  /\ seeding[2].at[2].pc = "done" /\ seeding[2].at[2].existing = 1
  /\ Len(users) = 1
  /\ Owners(users) = {1}

\* C20: no step of the admin user routes or of artist creation changes the
\* set of Users with role owner.
C20_OwnersUnchangedByApi ==
  [][Owners(users') = Owners(users)]_vars

(***************************************************************************)
(* Sessions and the guards in front of a route: index.js mounts            *)
(* /api/services behind authenticate, the router first connects to the     *)
(* database, and each writing route then runs validateId (when it has an   *)
(* :id) and authorize("owner").                                            *)
(***************************************************************************)
NoSession == [userId |-> 0, role |-> ""]
SessionOf(cookie) == IF cookie \in DOMAIN sessions THEN sessions[cookie] ELSE NoSession

\* A guard that lets every signed-in member of staff through: C21 must tell
\* it from authorize.
authorizeAnyStaff(roles, role) == role # ""

authorize(roles, role) == role \in roles

\* The answer of the first guard that stops the request, NoRes when none does.
\* dbOk is whether connectDB resolves; idOk whether req.params.id is absent
\* or a valid ObjectId.
Refusal(session, dbOk, idOk, roles) ==
  IF session.userId = 0 THEN Reply(401, FALSE, "Not authenticated. Please sign in.")
  ELSE IF ~dbOk THEN Reply(503, FALSE, "Database unavailable")
  ELSE IF ~idOk THEN Reply(400, FALSE, "Invalid ID format")
  ELSE IF ~authorize(roles, session.role)
    THEN Reply(403, FALSE, "Access denied. Insufficient permissions.")
  ELSE NoRes

\* A route behind its guards: the handler runs only when no guard answers.
Behind(refusal, handler) ==
  IF refusal # NoRes
    THEN res' = refusal
         /\ UNCHANGED <<services, visits, razorpay, verifiedPayments, reqs, served,
                        formVars, userVars>>
    ELSE handler

(***************************************************************************)
(* SpecAccess: the writing routes of /api/services called by any member of *)
(* staff, or by nobody.  Cookie 0 carries no session.                      *)
(***************************************************************************)
StaffRoles == <<"owner", "manager", "receptionist", "artist">>

InitAccess ==
  /\ services = [i \in ServiceIds |->
                   IF i = 1 THEN [name |-> "Haircut", price |-> 50, isActive |-> TRUE]
                   ELSE NoDoc]
  /\ users = [u \in DOMAIN StaffRoles |->
                [email |-> StaffRoles[u] \o "@salon.test", name |-> StaffRoles[u],
                 password |-> "staff-secret", role |-> StaffRoles[u], isActive |-> TRUE]]
  /\ sessions = [u \in DOMAIN StaffRoles |-> [userId |-> u, role |-> StaffRoles[u]]]
  /\ artists = <<>>
  /\ seeding = <<>>
  /\ visits = <<>>
  /\ res = NoRes
  /\ razorpay = TRUE
  /\ verifiedPayments = {}
  /\ reqs = <<>>
  /\ served = 0
  /\ client = NoClient
  /\ gateway = NoGateway

NextAccess ==
  \/ \E cookie \in 0..Len(StaffRoles), dbOk \in BOOLEAN, name \in Names, price \in Prices :
       Behind(Refusal(SessionOf(cookie), dbOk, TRUE, {"owner"}), CreateService(name, price))
  \/ \E cookie \in 0..Len(StaffRoles), dbOk, idOk \in BOOLEAN, id \in ServiceIds,
        body \in PatchBodies :
       Behind(Refusal(SessionOf(cookie), dbOk, idOk, {"owner"}), PatchService(id, body))
  \/ \E cookie \in 0..Len(StaffRoles), dbOk, idOk \in BOOLEAN, id \in ServiceIds :
       Behind(Refusal(SessionOf(cookie), dbOk, idOk, {"owner"}), DeleteService(id))
  \/ \E cookie \in 0..Len(StaffRoles), dbOk, idOk \in BOOLEAN, id \in ServiceIds :
       Behind(Refusal(SessionOf(cookie), dbOk, idOk, {"owner"}), PermanentDeleteService(id))

SpecAccess == InitAccess /\ [][NextAccess]_vars

(***************************************************************************)
(* Properties of the route guards.                                         *)
(***************************************************************************)
\* A step that is a POST, PATCH or DELETE on /api/services made with this cookie.
ServiceWriteBy(cookie) ==
  \E dbOk, idOk \in BOOLEAN :
    LET refusal == Refusal(SessionOf(cookie), dbOk, idOk, {"owner"}) IN
    \/ idOk /\ \E name \in Names, price \in Prices :
                 Behind(refusal, CreateService(name, price))
    \/ \E id \in ServiceIds :
         \/ \E body \in PatchBodies : Behind(refusal, PatchService(id, body))
         \/ Behind(refusal, DeleteService(id))
         \/ Behind(refusal, PermanentDeleteService(id))

\* C21 as stated: every write on /api/services from a session whose role is
\* not owner is answered 403 (401 without a session) and leaves the Service
\* collection unchanged.
C21_NonOwnerAlways403 ==
  [][\A cookie \in 0..Len(StaffRoles) :
       SessionOf(cookie).role # "owner" /\ ServiceWriteBy(cookie)
         => /\ res'.status = IF cookie = 0 THEN 401 ELSE 403
            /\ services' = services]_vars

\* C21: every write on /api/services from a session whose role is not owner
\* is refused and leaves the Service collection unchanged; the answer is 401
\* without a session, and otherwise 403, 503 (database unavailable) or 400
\* (malformed :id), the last two only from the guards that run before the
\* role check.
C21_NonOwnerIsRefused ==
  [][\A cookie \in 0..Len(StaffRoles) :
       SessionOf(cookie).role # "owner" /\ ServiceWriteBy(cookie)
         => /\ res'.status \in (IF cookie = 0 THEN {401} ELSE {403, 503, 400})
            /\ ~res'.success
            /\ services' = services]_vars

\* A manager's write was refused with 403 while the catalogue holds a service.
C21_Witness ==
  /\ res = Reply(403, FALSE, "Access denied. Insufficient permissions.")
  /\ \E i \in ServiceIds : IsDoc(services[i])

(***************************************************************************)
(* SpecConflict: the owner creating and updating users, artists and        *)
(* services whose email, phone or name may be held already.                *)
(***************************************************************************)
InitConflict ==
  /\ users = <<[email |-> OwnerEmail, name |-> "Salon Owner", password |-> OwnerPassword,
                role |-> "owner", isActive |-> TRUE],
               [email |-> "staff@salon.test", name |-> "Staff", password |-> "staff-secret",
                role |-> "manager", isActive |-> TRUE]>>
  /\ sessions = <<[userId |-> 1, role |-> "owner"]>>
  /\ artists = <<[name |-> "Asha", phone |-> "9000000001", email |-> Null,
                  commission |-> 30, userId |-> 0, isActive |-> TRUE]>>
  /\ services = [i \in ServiceIds |->
                   IF i = 1 THEN [name |-> "Haircut", price |-> 50, isActive |-> TRUE]
                   ELSE NoDoc]
  /\ seeding = <<>>
  /\ visits = <<>>
  /\ res = NoRes
  /\ razorpay = TRUE
  /\ verifiedPayments = {}
  /\ reqs = <<>>
  /\ served = 0
  /\ client = NoClient
  /\ gateway = NoGateway

\* The bodies the owner sends.
ConflictUserBodies == [email : {"Staff@Salon.test", "new@salon.test"}, role : {"receptionist"}]
ConflictUserPatches ==
  [fields : {{"email"}}, email : {"Staff@Salon.test", "new@salon.test"},
   role : {"receptionist"}, isActive : {TRUE}]
ConflictArtistBodies ==
  [name : {"Bina"}, phone : {"9000000001", "9000000002"},
   email : {Null, "Staff@Salon.test"}, password : {"artist-secret"},
   commission : {30}]
ConflictArtistPatches ==
  [fields : {{"phone"}}, name : {"Bina"}, phone : {"9000000001", "9000000002"}]
ConflictServicePatches ==
  [fields : {{"name"}}, name : {"HAIRCUT", "Shave"}, price : {50}, isActive : {TRUE}]

NextConflict ==
  \/ \E body \in ConflictUserBodies : PostUser(body)
  \/ \E id \in 1..MaxUsers, body \in ConflictUserPatches : PatchUser(id, TRUE, body)
  \/ \E body \in ConflictArtistBodies : PostArtist(body)
  \/ \E id \in 1..MaxUsers, body \in ConflictArtistPatches : PatchArtist(id, body)
  \/ \E name \in {"HAIRCUT", "Shave"} : CreateService(name, 50)
  \/ \E id \in ServiceIds, body \in ConflictServicePatches : PatchService(id, body)

SpecConflict == InitConflict /\ [][NextConflict]_vars

(***************************************************************************)
(* Properties of the duplicate checks.                                     *)
(***************************************************************************)
\* Some document of the collection other than except holds the value, names
\* and emails compared without regard to case.
Held(collection, field, value, except) ==
  \E i \in DOMAIN collection :
    /\ i # except
    /\ IsDoc(collection[i])
    /\ toLowerCase(collection[i][field]) = toLowerCase(value)

Answered409NothingWritten ==
  /\ res'.status = 409
  /\ ~res'.success
  /\ UNCHANGED <<users, artists, services, visits>>

\* C22: a create or an update that the route's other rules accept and that
\* carries an artist phone, a user email or a service name (in any
\* capitalisation) held by another document is answered 409 and writes nothing.
C22_DuplicatesAnswered409 ==
  [][/\ \A body \in ConflictUserBodies :
          PostUser(body) /\ Held(users, "email", body.email, 0)
            => Answered409NothingWritten
     /\ \A id \in DOMAIN users, body \in ConflictUserPatches :
          PatchUser(id, TRUE, body) /\ IsDoc(users[id]) /\ "email" \in body.fields
            /\ Held(users, "email", body.email, id)
            => Answered409NothingWritten
     /\ \A body \in ConflictArtistBodies :
          PostArtist(body)
            /\ \/ Held(artists, "phone", body.phone, 0)
               \/ body.email # Null /\ Held(users, "email", body.email, 0)
            => Answered409NothingWritten
     /\ \A id \in DOMAIN artists, body \in ConflictArtistPatches :
          PatchArtist(id, body) /\ IsDoc(artists[id]) /\ "phone" \in body.fields
            /\ Held(artists, "phone", body.phone, id)
            => Answered409NothingWritten
     /\ \A name \in {"HAIRCUT", "Shave"} :
          CreateService(name, 50) /\ Held(services, "name", name, 0)
            => Answered409NothingWritten
     /\ \A id \in ServiceIds, body \in ConflictServicePatches :
          PatchService(id, body) /\ IsDoc(services[id]) /\ "name" \in body.fields
            /\ Held(services, "name", body.name, id)
            => Answered409NothingWritten]_vars

\* A service was refused because its name differs from a held one by case only.
C22_Witness ==
  /\ res = Reply(409, FALSE, "A service with this name already exists")
  /\ \A i \in ServiceIds : IsDoc(services[i]) => services[i].name = "Haircut"

(***************************************************************************)
(* SpecOrder: POST /api/create-order and POST /api/create-payment-link     *)
(* from a signed-in session, the amount being anything a JSON body can     *)
(* hold: nothing, a string that is no number, or a number, here given in   *)
(* thousandths of a currency unit.                                         *)
(***************************************************************************)
MaxOrders == 3

PaymentAmounts ==
  {[kind |-> "missing"], [kind |-> "text"]} \cup
  {[kind |-> "number", thousandths |-> k] : k \in {0, 500, 994, 995, 999, 1000, 1500, 2000}}

\* validatePaymentInput: error is the message of the 400 it sends, "" when it
\* returns the parsed values.
validatePaymentInput(amount) ==
  IF amount.kind = "missing" \/ (amount.kind = "number" /\ amount.thousandths = 0)
    THEN [error |-> "name, phone and amount are required", amountInPaise |-> 0]
  ELSE IF amount.kind = "text"
    THEN [error |-> "Amount must be at least 1", amountInPaise |-> 0]
  ELSE LET amountInPaise == MathRound(FlMul(100, FlDiv(amount.thousandths, 1000))) IN
       IF amountInPaise < 100
         THEN [error |-> "Amount must be at least 1", amountInPaise |-> 0]
         ELSE [error |-> "", amountInPaise |-> amountInPaise]

\* Both routes: kind is "order" for razorpay.orders.create and "plink" for
\* razorpay.paymentLink.create; gatewayOk is whether that call answers.
CreateAtGateway(kind, amount, gatewayOk) ==
  LET parsed == validatePaymentInput(amount) IN
  /\ Len(gateway.orders) < MaxOrders
  /\ IF ~razorpay
       THEN res' = Reply(503, FALSE, "Payment service not configured") /\ UNCHANGED gateway
     ELSE IF parsed.error # ""
       THEN res' = Reply(400, FALSE, parsed.error) /\ UNCHANGED gateway
     ELSE IF ~gatewayOk
       THEN res' = Reply(500, FALSE, "Failed to create " \o kind) /\ UNCHANGED gateway
     ELSE /\ gateway' = [gateway EXCEPT !.orders =
                           Append(@, [id |-> kind \o "_" \o ToString(Len(gateway.orders) + 1),
                                      amount |-> parsed.amountInPaise])]
          /\ res' = Reply(200, TRUE, "")
  /\ UNCHANGED <<services, visits, razorpay, verifiedPayments, reqs, served, client,
                 userVars>>

\* POST /api/create-order
PostCreateOrder(amount, gatewayOk) == CreateAtGateway("order", amount, gatewayOk)

\* POST /api/create-payment-link
PostCreatePaymentLink(amount, gatewayOk) == CreateAtGateway("plink", amount, gatewayOk)

InitOrder ==
  /\ razorpay \in BOOLEAN
  /\ services = [i \in ServiceIds |-> NoDoc]
  /\ visits = <<>>
  /\ res = NoRes
  /\ verifiedPayments = {}
  /\ reqs = <<>>
  /\ served = 0
  /\ NoFormNoStaff

NextOrder ==
  \/ \E amount \in PaymentAmounts, gatewayOk \in BOOLEAN : PostCreateOrder(amount, gatewayOk)
  \/ \E amount \in PaymentAmounts, gatewayOk \in BOOLEAN :
       PostCreatePaymentLink(amount, gatewayOk)

SpecOrder == InitOrder /\ [][NextOrder]_vars

(***************************************************************************)
(* Properties of the payment amount.                                       *)
(***************************************************************************)
\* C23: with the gateway configured, create-order and create-payment-link
\* accept an amount only when it is a number of at least 1 currency unit and
\* then send the gateway round(amount * 100) minor units; any other amount is
\* answered 400 and creates nothing at the gateway.
C23_AmountAtLeastOneUnit ==
  [][\A kind \in {"order", "plink"}, amount \in PaymentAmounts, gatewayOk \in BOOLEAN :
       razorpay /\ CreateAtGateway(kind, amount, gatewayOk)
         => IF amount.kind = "number" /\ amount.thousandths >= 1000
              THEN res'.success
                     => /\ Len(gateway'.orders) = Len(gateway.orders) + 1
                        /\ gateway'.orders[Len(gateway'.orders)].amount
                             = (amount.thousandths + 5) \div 10
              ELSE res'.status = 400 /\ gateway' = gateway]_vars

(***************************************************************************)
(* The artist dashboards: GET /api/artist-dashboard/summary for the        *)
(* signed-in artist and GET /api/owner/artist-dashboard/:artistId/summary  *)
(* for the owner.  A time of day "HH:mm" is kept as [h, m], a visit's date *)
(* as a day number; selected is the directory entry the receptionist chose *)
(* in the form, of which the Visit keeps only the name.  Money in a        *)
(* summary is in hundredths of a currency unit, hours are in tenths.       *)
(***************************************************************************)
\* A calcHours that counts a visit ending before it starts by its length:
\* C24 must tell it from calcHours.
calcHoursUnsigned(startTime, endTime) ==
  LET diff == (endTime.h * 60 + endTime.m) - (startTime.h * 60 + startTime.m)
  IN  FlDiv(IF diff < 0 THEN 0 - diff ELSE diff, 60)

\* Math.max(diff / 60, 0), the division being by a positive number.
calcHours(startTime, endTime) ==
  LET diff == (endTime.h * 60 + endTime.m) - (startTime.h * 60 + startTime.m)
  IN  FlDiv(Max(diff, 0), 60)

RECURSIVE Revenue(_)
Revenue(found) == IF found = <<>> THEN 0 ELSE Head(found).finalTotal + Revenue(Tail(found))

\* Visit.find({ date: { $gte, $lte }, artist: artistName })
VisitsOf(artistName, query) ==
  SelectSeq(visits, LAMBDA v : v.day \in query.from..query.to /\ v.artist = artistName)

\* The body of GET /summary for an Artist record.
Summary(artistRecord, query) ==
  LET found        == VisitsOf(artistRecord.name, query)
      totalRevenue == Revenue(found)
      totalHours   == NumSum(FlDiv(0, 1),
                             [k \in DOMAIN found |->
                                calcHours(found[k].startTime, found[k].endTime)])
  IN  [totalRevenue     |-> totalRevenue,
       commissionPct    |-> artistRecord.commission,
       commissionEarned |-> MathRound(FlMul(100, FlMul(totalRevenue,
                                                       PctFraction[artistRecord.commission]))),
       totalVisits      |-> Len(found),
       uniqueCustomers  |-> Cardinality({found[k].contact : k \in DOMAIN found}),
       hoursWorked      |-> MathRound(FlMul(10, totalHours)),
       avgTicket        |-> IF found = <<>> THEN 0
                            ELSE MathRound(FlMul(100, FlDiv(totalRevenue, Len(found))))]

Sent(body) == [status |-> 200, success |-> TRUE, error |-> "", body |-> body]

\* GET /api/artist-dashboard/summary
GetSummary(cookie, query) ==
  LET session == SessionOf(cookie)
      mine    == {i \in DOMAIN artists : IsDoc(artists[i]) /\ artists[i].userId = session.userId}
  IN  Behind(Refusal(session, TRUE, TRUE, {"artist"}),
             /\ res' = IF mine = {}
                         THEN Reply(404, FALSE, "Artist profile not found. Contact the owner.")
                         ELSE Sent(Summary(artists[CHOOSE i \in mine : \A j \in mine : i <= j],
                                           query))
             /\ UNCHANGED <<services, visits, razorpay, verifiedPayments, reqs, served,
                            formVars, userVars>>)

\* GET /api/owner/artist-dashboard/:artistId/summary
GetArtistSummary(cookie, artistId, query) ==
  Behind(Refusal(SessionOf(cookie), TRUE, TRUE, {"owner"}),
         /\ res' = IF artistId \notin DOMAIN artists \/ ~IsDoc(artists[artistId])
                     THEN Reply(404, FALSE, "Artist not found")
                     ELSE Sent(Summary(artists[artistId], query))
         /\ UNCHANGED <<services, visits, razorpay, verifiedPayments, reqs, served,
                        formVars, userVars>>)

(***************************************************************************)
(* SpecReport: two artists with login accounts and some past visits; the   *)
(* owner edits the directory, and the owner and the artists read           *)
(* summaries.                                                              *)
(***************************************************************************)
Morning == [h |-> 10, m |-> 0]
Noon    == [h |-> 12, m |-> 6]
Dawn    == [h |-> 9, m |-> 0]

PastVisit(selected, finalTotal, startTime, endTime, day, contact) ==
  [artist |-> IF selected = 1 THEN "Asha" ELSE "Bina", selected |-> selected,
   finalTotal |-> finalTotal, startTime |-> startTime, endTime |-> endTime,
   day |-> day, contact |-> contact]

PastVisits ==
  LET v1 == PastVisit(1, 135, Morning, Noon, 1, "9000000009")
      v2 == PastVisit(1, 50, Morning, Dawn, 2, "9000000009")
      v3 == PastVisit(2, 50, Dawn, Morning, 2, "9000000008")
  IN  {<<v1, v2, v3>>, <<v1, v3>>, <<v2>>, <<v3, v1>>}

Queries == {[from |-> 1, to |-> 2], [from |-> 2, to |-> 2]}

InitReport ==
  /\ visits \in PastVisits
  /\ users = <<[email |-> OwnerEmail, name |-> "Salon Owner", password |-> OwnerPassword,
                role |-> "owner", isActive |-> TRUE],
               [email |-> "asha@salon.test", name |-> "Asha", password |-> "artist-secret",
                role |-> "artist", isActive |-> TRUE],
               [email |-> "bina@salon.test", name |-> "Bina", password |-> "artist-secret",
                role |-> "artist", isActive |-> TRUE]>>
  /\ artists = <<[name |-> "Asha", phone |-> "9000000001", email |-> "asha@salon.test",
                  commission |-> 30, userId |-> 2, isActive |-> TRUE],
                 [name |-> "Bina", phone |-> "9000000002", email |-> "bina@salon.test",
                  commission |-> 30, userId |-> 3, isActive |-> TRUE]>>
  /\ sessions = <<[userId |-> 1, role |-> "owner"], [userId |-> 2, role |-> "artist"],
                  [userId |-> 3, role |-> "artist"]>>
  /\ services = [i \in ServiceIds |-> NoDoc]
  /\ seeding = <<>>
  /\ res = NoRes
  /\ razorpay = TRUE
  /\ verifiedPayments = {}
  /\ reqs = <<>>
  /\ served = 0
  /\ client = NoClient
  /\ gateway = NoGateway

ReportPatches ==
  [fields : {{"commission"}, {"name"}}, name : {"Asha"}, phone : {"9000000001"},
   isActive : {TRUE}, commission : {30, 45}]

NextReport ==
  \/ \E id \in 1..2, body \in ReportPatches : PatchArtist(id, body)
  \/ \E cookie \in 0..3, query \in Queries : GetSummary(cookie, query)
  \/ \E cookie \in 0..3, artistId \in 1..3, query \in Queries :
       GetArtistSummary(cookie, artistId, query)

SpecReport == InitReport /\ [][NextReport]_vars

(***************************************************************************)
(* Properties of the summaries.                                            *)
(***************************************************************************)
RECURSIVE MinutesWorked(_)
MinutesWorked(found) ==
  IF found = <<>> THEN 0
  ELSE LET v    == Head(found)
           diff == (v.endTime.h * 60 + v.endTime.m) - (v.startTime.h * 60 + v.startTime.m)
       IN  (IF diff > 0 THEN diff ELSE 0) + MinutesWorked(Tail(found))

\* What a summary of this artist over this period must say of commission and
\* hours: commission is revenue times the percent the Artist record holds
\* now, and hours are the lengths of the visits, one that ends before it
\* starts counting for nothing.
AtCurrentPercent(body, artistRecord, query) ==
  LET found == VisitsOf(artistRecord.name, query) IN
  /\ body.commissionPct = artistRecord.commission
  /\ body.commissionEarned = Revenue(found) * artistRecord.commission
  /\ body.hoursWorked >= 0
  /\ body.hoursWorked = MinutesWorked(found) \div 6

\* C24: every summary, the owner's and the artist's own, reports commission
\* as the period revenue times the artist's commission percent as stored when
\* the summary is made, whatever it was when the visits took place, and
\* hoursWorked is never negative.
C24_CommissionAtCurrentPercent ==
  [][/\ \A artistId \in DOMAIN artists, query \in Queries :
          GetArtistSummary(1, artistId, query)
            => AtCurrentPercent(res'.body, artists[artistId], query)
     /\ \A cookie \in 2..3, query \in Queries :
          GetSummary(cookie, query)
            => AtCurrentPercent(res'.body, artists[cookie - 1], query)]_vars

\* A summary made after the commission was changed from 30 to 45, over a
\* period with revenue and with a visit that ends before it starts.
C24_Witness ==
  /\ "body" \in DOMAIN res
  /\ res.body.commissionPct = 45
  /\ res.body.totalRevenue = 185
  /\ res.body.commissionEarned = 8325
  /\ res.body.hoursWorked = 21

\* C27: a summary answered to a signed-in artist counts only visits performed
\* by that artist: every visit it is computed from is one for which the
\* receptionist selected that artist's own directory entry.
C27_ArtistSeesOnlyOwnVisits ==
  [][\A cookie \in 2..3, query \in Queries :
       GetSummary(cookie, query)
         => LET counted == VisitsOf(artists[cookie - 1].name, query) IN
            /\ res'.body.totalVisits = Len(counted)
            /\ \A k \in DOMAIN counted : counted[k].selected = cookie - 1]_vars

(***************************************************************************)
(* SpecSeedFair: SpecSeed with requests that keep arriving and a database  *)
(* that does not fail for ever.                                            *)
(***************************************************************************)

\* The seed middleware runs ensureOwner again for a later request: a
\* request slot whose call returned serves the next request.
SeedArrive(p, a) ==
  /\ seeding[p].at[a].pc \in {"skipped", "failed", "done"}
  /\ seeding' = [seeding EXCEPT ![p].at[a] = [pc |-> "new", existing |-> 0,
                                               changed |-> FALSE]]
  /\ UNCHANGED users
  /\ UNCHANGED <<services, visits, res, razorpay, verifiedPayments, reqs, served,
                 formVars, artists, sessions>>

\* The calls of process p that are inside the try block of ensureOwner.
Running(p) == {a \in 1..MaxAttempts : seeding[p].at[a].pc \in {"connect", "write"}}

NextSeedFair ==
  \/ \E p \in 1..MaxProcs, a \in 1..MaxAttempts : SeedEnter(p, a)
  \/ \E p \in 1..MaxProcs, a \in 1..MaxAttempts : SeedFind(p, a)
  \/ \E p \in 1..MaxProcs, a \in 1..MaxAttempts : SeedWrite(p, a)
  \/ \E p \in 1..MaxProcs, a \in 1..MaxAttempts : SeedArrive(p, a)

\* Requests keep arriving and run (weak fairness of the arrival and of the
\* entry), and the database is eventually available: an await that is
\* tried again and again does not reject every time (strong fairness of the
\* await that resolves).
SeedFairness ==
  \A p \in 1..MaxProcs, a \in 1..MaxAttempts :
    /\ WF_vars(SeedArrive(p, a))
    /\ WF_vars(SeedEnter(p, a))
    /\ SF_vars(SeedFind(p, a) /\ seeding'[p].at[a].pc = "write")
    /\ SF_vars(SeedWrite(p, a) /\ seeding'[p].at[a].pc = "done")

SpecSeedFair == InitSeed /\ [][NextSeedFair]_vars /\ SeedFairness

\* C25: within one process at most one call is inside the body of
\* ensureOwner at a time, a process whose calls all failed has ownerSeeded
\* cleared so that its next request tries again, and when requests keep
\* arriving and the database is eventually available the account of the
\* owner eventually exists, active and with the configured email.
C25_OwnerEventuallySeeded ==
  /\ [](\A p \in 1..MaxProcs :
          /\ Cardinality(Running(p)) <= 1
          /\ (Running(p) = {} /\ Owners(users) = {}) => ~seeding[p].ownerSeeded)
  /\ <>(\E i \in DOMAIN users :
          /\ IsDoc(users[i]) /\ users[i].role = "owner"
          /\ users[i].isActive /\ users[i].email = OwnerEmail)

\* A call failed and cleared the flag, a later request of the same process
\* retried, and the owner was created by it.
C25_Witness ==
  \E p \in 1..MaxProcs :
    /\ \E a \in 1..MaxAttempts : seeding[p].at[a].pc = "failed"
    /\ \E a \in 1..MaxAttempts : seeding[p].at[a].pc = "done"
    /\ seeding[p].ownerSeeded
    /\ Len(users) = 1 /\ users[1].role = "owner" /\ users[1].email = OwnerEmail

\* C29: after any sequence of user operations of /api/admin sent from the
\* session of the owner, some User with role owner is active.
C29_ActiveOwnerRemains ==
  \E i \in Owners(users) : users[i].isActive

(***************************************************************************)
(* SpecLogin: members of staff sign in and out, send requests with the     *)
(* session they hold, and accounts are deactivated and reactivated.        *)
(***************************************************************************)
MaxSessions == 3

\* POST /api/auth/login with a well-formed email and password: a session is
\* opened for the active User with that email when the password verifies.
PostLogin(body) ==
  /\ Len(sessions) < MaxSessions
  /\ LET found == {i \in DOMAIN users : /\ IsDoc(users[i])
                                        /\ users[i].email = toLowerCase(body.email)
                                        /\ users[i].isActive}
     IN  IF found = {} \/ \A i \in found : users[i].password # body.password
           THEN res' = Reply(401, FALSE, "Invalid email or password")
                /\ UNCHANGED sessions
         ELSE LET i == CHOOSE i \in found : users[i].password = body.password
              IN  /\ sessions' = Append(sessions, [userId |-> i, role |-> users[i].role])
                  /\ res' = Sent([id |-> i, role |-> users[i].role])
  /\ UNCHANGED <<services, visits, razorpay, verifiedPayments, reqs, served, formVars,
                 users, artists, seeding>>

\* POST /api/auth/logout: the session is destroyed.
PostLogout(cookie) ==
  /\ cookie \in DOMAIN sessions
  /\ sessions' = [sessions EXCEPT ![cookie] = NoSession]
  /\ res' = Sent([ok |-> TRUE])
  /\ UNCHANGED <<services, visits, razorpay, verifiedPayments, reqs, served, formVars,
                 users, artists, seeding>>

\* GET /api/artists, mounted behind authenticate alone (every role of a
\* session is let through): the active artists.
GetArtists(cookie) ==
  Behind(Refusal(SessionOf(cookie), TRUE, TRUE, {SessionOf(cookie).role}),
         /\ res' = Sent([for |-> SessionOf(cookie).userId,
                         artists |-> {i \in DOMAIN artists :
                                        IsDoc(artists[i]) /\ artists[i].isActive}])
         /\ UNCHANGED <<services, visits, razorpay, verifiedPayments, reqs, served,
                        formVars, userVars>>)

\* The owner, a manager and an artist with a linked account, nobody signed in.
InitLogin ==
  /\ users = <<[email |-> OwnerEmail, name |-> "Salon Owner", password |-> OwnerPassword,
                role |-> "owner", isActive |-> TRUE],
               [email |-> "staff@salon.test", name |-> "Staff",
                password |-> "staff-secret", role |-> "manager", isActive |-> TRUE],
               [email |-> "artist@salon.test", name |-> "Asha",
                password |-> "artist-secret", role |-> "artist", isActive |-> TRUE]>>
  /\ artists = <<[name |-> "Asha", phone |-> "9000000001", email |-> "artist@salon.test",
                  commission |-> 30, userId |-> 3, isActive |-> TRUE]>>
  /\ seeding = <<>>
  /\ sessions = <<>>
  /\ services = [i \in ServiceIds |-> NoDoc]
  /\ visits = <<>>
  /\ res = NoRes
  /\ razorpay = TRUE
  /\ verifiedPayments = {}
  /\ reqs = <<>>
  /\ served = 0
  /\ client = NoClient
  /\ gateway = NoGateway

LoginBodies ==
  [email : {OwnerEmail, "Staff@Salon.test", "artist@salon.test"},
   password : {OwnerPassword, "staff-secret", "artist-secret"}]

NextLogin ==
  \/ \E body \in LoginBodies : PostLogin(body)
  \/ \E cookie \in 1..MaxSessions : PostLogout(cookie)
  \/ \E cookie \in 1..MaxSessions : GetArtists(cookie)
  \/ \E cookie \in 1..MaxSessions, id \in 2..3 :
       /\ SessionOf(cookie).userId \in {0, 1}
       /\ Behind(Refusal(SessionOf(cookie), TRUE, TRUE, {"owner"}), DeleteUser(id, TRUE))
  \/ \E cookie \in 1..MaxSessions, id \in 2..3, isActive \in BOOLEAN :
       /\ SessionOf(cookie).userId \in {0, 1}
       /\ Behind(Refusal(SessionOf(cookie), TRUE, TRUE, {"owner"}),
                 PatchUser(id, TRUE, [fields |-> {"isActive"}, role |-> "manager",
                                      isActive |-> isActive]))
  \/ \E cookie \in 1..MaxSessions :
       Behind(Refusal(SessionOf(cookie), TRUE, TRUE, {"manager", "owner"}),
              DeleteArtist(1))

SpecLogin == InitLogin /\ [][NextLogin]_vars

Deactivated(userId) ==
  userId \in DOMAIN users /\ IsDoc(users[userId]) /\ ~users[userId].isActive

\* C28: once a User is deactivated, a login with the credentials of that User
\* is answered 401, and a request sent with a session of that User is
\* answered 401 by authenticate.
C28_DeactivatedUserShutOut ==
  [][/\ \A body \in LoginBodies :
          /\ \E i \in DOMAIN users : /\ Deactivated(i)
                                     /\ users[i].email = toLowerCase(body.email)
          /\ PostLogin(body)
          => res'.status = 401
     /\ \A cookie \in 1..MaxSessions :
          Deactivated(SessionOf(cookie).userId) /\ GetArtists(cookie)
          => res'.status = 401]_vars

(***************************************************************************)
(* SpecArtists: the artist routes, sent by the owner one after the other.  *)
(***************************************************************************)
ArtistBodies ==
  [name : {"Asha"}, phone : {"9000000001", "9000000002"},
   email : {Null, "artist@salon.test", "asha@salon.test"},
   password : {"artist-secret"}, commission : {30}]

ArtistPatches ==
  [fields : {{"isActive"}, {"phone"}, {"name"}}, name : {"Bina"},
   phone : {"9000000002"}, isActive : BOOLEAN, commission : {30}]

NextArtists ==
  \/ \E body \in ArtistBodies : PostArtist(body)
  \/ \E id \in 1..MaxUsers, body \in ArtistPatches : PatchArtist(id, body)
  \/ \E id \in 1..MaxUsers : DeleteArtist(id)
  \/ \E id \in 1..MaxUsers : PermanentDeleteArtist(id)

SpecArtists == InitUsers /\ [][NextArtists]_vars

\* The artists whose userId is the given User.
ArtistsOf(userId) ==
  {a \in DOMAIN artists : IsDoc(artists[a]) /\ artists[a].userId = userId}

\* C30: every User with role artist is the userId of exactly one Artist, and
\* is active exactly when that Artist is.
C30_LinkedAccountFollowsArtist ==
  \A i \in DOMAIN users :
    IsDoc(users[i]) /\ users[i].role = "artist"
      => /\ Cardinality(ArtistsOf(i)) = 1
         /\ \A a \in ArtistsOf(i) : users[i].isActive = artists[a].isActive

(***************************************************************************)
(* SpecRace: create and update requests in flight at the same time.  Every *)
(* await of a handler is a step of its own, so that other requests run     *)
(* between the duplicate check of a request and its write; reqs holds the  *)
(* requests in flight.                                                     *)
(***************************************************************************)
MaxRace == 3

RaceRequests ==
  [op : {"PostService"}, name : {"Haircut", "HAIRCUT", "Shave"}]
    \cup [op : {"PatchService"}, id : ServiceIds, name : {"Haircut"}]
    \cup [op : {"PostArtist"}, phone : {"9000000001"}, email : {Null, "artist@salon.test"}]
    \cup [op : {"PatchArtist"}, id : 1..2, phone : {"9000000001", "9000000002"}]
    \cup [op : {"PostUser"}, email : {"Staff@Salon.test", "staff@salon.test"}]

\* The unique index of a schema (unique: true on Service.name, Artist.phone
\* and User.email): a write is rejected when another document stores the
\* very same value.
UniqueIndex(collection, field, value, except) ==
  \E i \in DOMAIN collection :
    i # except /\ IsDoc(collection[i]) /\ collection[i][field] = value

InFlight(op) == {r \in DOMAIN reqs : reqs[r].body.op = op /\ reqs[r].pc # "done"}

\* A request reaches its handler.
RaceArrive(body) ==
  /\ Len(reqs) < MaxRace
  /\ body.op = "PostService"
       => Cardinality(InFlight("PostService")) < Cardinality(FreeSlots(services))
  /\ reqs' = Append(reqs, [body |-> body, pc |-> "check", status |-> 0, userId |-> 0])
  /\ UNCHANGED <<services, visits, res, razorpay, verifiedPayments, served, formVars,
                 userVars>>

Answer(r, status) == [reqs EXCEPT ![r].pc = "done", ![r].status = status]

\* The findById and the duplicate findOne of a handler.
RaceCheck(r) ==
  /\ reqs[r].pc = "check"
  /\ LET body == reqs[r].body IN
     reqs' =
       CASE body.op = "PostService" ->
              IF NameTaken(services, body.name, 0) THEN Answer(r, 409)
              ELSE [reqs EXCEPT ![r].pc = "write"]
         [] body.op = "PatchService" ->
              IF ~IsDoc(services[body.id]) THEN Answer(r, 404)
              ELSE IF NameTaken(services, body.name, body.id) THEN Answer(r, 409)
              ELSE [reqs EXCEPT ![r].pc = "write"]
         [] body.op = "PostArtist" ->
              IF PhoneTaken(artists, body.phone, 0) THEN Answer(r, 409)
              ELSE IF ~Falsy(body.email) THEN [reqs EXCEPT ![r].pc = "checkEmail"]
              ELSE [reqs EXCEPT ![r].pc = "write"]
         [] body.op = "PatchArtist" ->
              IF body.id \notin DOMAIN artists \/ ~IsDoc(artists[body.id])
                THEN Answer(r, 404)
              ELSE IF PhoneTaken(artists, body.phone, body.id) THEN Answer(r, 409)
              ELSE [reqs EXCEPT ![r].pc = "write"]
         [] body.op = "PostUser" ->
              IF EmailTaken(users, toLowerCase(body.email), 0) THEN Answer(r, 409)
              ELSE [reqs EXCEPT ![r].pc = "write"]
  /\ UNCHANGED <<services, visits, res, razorpay, verifiedPayments, served, formVars,
                 userVars>>

\* POST /api/artists with an email and a password: User.findOne on the email.
RaceCheckEmail(r) ==
  /\ reqs[r].pc = "checkEmail"
  /\ reqs' = IF EmailTaken(users, toLowerCase(reqs[r].body.email), 0)
               THEN Answer(r, 409)
               ELSE [reqs EXCEPT ![r].pc = "user"]
  /\ UNCHANGED <<services, visits, res, razorpay, verifiedPayments, served, formVars,
                 userVars>>

\* POST /api/artists: User.create of the linked account; a rejection by the
\* index ends in the catch block.
RaceCreateUser(r) ==
  /\ reqs[r].pc = "user"
  /\ LET email == toLowerCase(reqs[r].body.email) IN
     IF UniqueIndex(users, "email", email, 0)
       THEN reqs' = Answer(r, 500) /\ UNCHANGED users
       ELSE /\ users' = Append(users, [email |-> email, name |-> "Asha",
                                       password |-> "artist-secret", role |-> "artist",
                                       isActive |-> TRUE])
            /\ reqs' = [reqs EXCEPT ![r].pc = "write", ![r].userId = Len(users')]
  /\ UNCHANGED <<services, visits, res, razorpay, verifiedPayments, served, formVars,
                 artists, seeding, sessions>>

\* The create or findByIdAndUpdate of a handler, rejected by the unique index
\* of the collection when another document stores the value.
RaceWrite(r) ==
  /\ reqs[r].pc = "write"
  /\ LET body == reqs[r].body IN
     CASE body.op = "PostService" ->
            IF UniqueIndex(services, "name", body.name, 0)
              THEN reqs' = Answer(r, 500) /\ UNCHANGED <<services, users, artists>>
              ELSE LET id == CHOOSE i \in FreeSlots(services) :
                               \A j \in FreeSlots(services) : i <= j
                   IN  /\ services' = [services EXCEPT
                                         ![id] = [name |-> body.name, price |-> 50,
                                                  isActive |-> TRUE]]
                       /\ reqs' = Answer(r, 201)
                       /\ UNCHANGED <<users, artists>>
       [] body.op = "PatchService" ->
            IF UniqueIndex(services, "name", body.name, body.id)
              THEN reqs' = Answer(r, 500) /\ UNCHANGED <<services, users, artists>>
              ELSE /\ services' = [services EXCEPT ![body.id].name = body.name]
                   /\ reqs' = Answer(r, 200)
                   /\ UNCHANGED <<users, artists>>
       [] body.op = "PostArtist" ->
            IF UniqueIndex(artists, "phone", body.phone, 0)
              THEN reqs' = Answer(r, 500) /\ UNCHANGED <<services, users, artists>>
              ELSE /\ artists' = Append(artists,
                                        [name |-> "Asha", phone |-> body.phone,
                                         email |-> IF Falsy(body.email) THEN Null
                                                   ELSE toLowerCase(body.email),
                                         commission |-> 30, userId |-> reqs[r].userId,
                                         isActive |-> TRUE])
                   /\ reqs' = Answer(r, 201)
                   /\ UNCHANGED <<services, users>>
       [] body.op = "PatchArtist" ->
            IF UniqueIndex(artists, "phone", body.phone, body.id)
              THEN reqs' = Answer(r, 500) /\ UNCHANGED <<services, users, artists>>
              ELSE /\ artists' = [artists EXCEPT ![body.id].phone = body.phone]
                   /\ reqs' = Answer(r, 200)
                   /\ UNCHANGED <<services, users>>
       [] body.op = "PostUser" ->
            IF UniqueIndex(users, "email", toLowerCase(body.email), 0)
              THEN reqs' = Answer(r, 500) /\ UNCHANGED <<services, users, artists>>
              ELSE /\ users' = Append(users, [email |-> toLowerCase(body.email),
                                              name |-> "Staff", password |-> "staff-secret",
                                              role |-> "manager", isActive |-> TRUE])
                   /\ reqs' = Answer(r, 201)
                   /\ UNCHANGED <<services, artists>>
  /\ UNCHANGED <<visits, res, razorpay, verifiedPayments, served, formVars, seeding,
                 sessions>>

\* The seeded owner, no artist and an empty catalog; nothing in flight.
InitRace ==
  /\ users = <<[email |-> OwnerEmail, name |-> "Salon Owner", password |-> OwnerPassword,
                role |-> "owner", isActive |-> TRUE]>>
  /\ artists = <<>>
  /\ seeding = <<>>
  /\ sessions = <<[userId |-> 1, role |-> "owner"]>>
  /\ services = [i \in ServiceIds |-> NoDoc]
  /\ visits = <<>>
  /\ res = NoRes
  /\ razorpay = TRUE
  /\ verifiedPayments = {}
  /\ reqs = <<>>
  /\ served = 0
  /\ client = NoClient
  /\ gateway = NoGateway

NextRace ==
  \/ \E body \in RaceRequests : RaceArrive(body)
  \/ \E r \in 1..MaxRace : r \in DOMAIN reqs /\ RaceCheck(r)
  \/ \E r \in 1..MaxRace : r \in DOMAIN reqs /\ RaceCheckEmail(r)
  \/ \E r \in 1..MaxRace : r \in DOMAIN reqs /\ RaceCreateUser(r)
  \/ \E r \in 1..MaxRace : r \in DOMAIN reqs /\ RaceWrite(r)

SpecRace == InitRace /\ [][NextRace]_vars

\* Two documents of the collection hold the same value of the field, names
\* and emails being the same when the duplicate check takes them for the
\* same, whatever their case.
Twice(collection, field) ==
  \E i \in DOMAIN collection : IsDoc(collection[i])
                               /\ Held(collection, field, collection[i][field], i)

\* C26: under any interleaving of create and update requests no two Artists
\* hold the same phone, no two Users the same email and no two Services the
\* same name.
C26_UniqueUnderInterleaving ==
  /\ ~Twice(artists, "phone")
  /\ ~Twice(users, "email")
  /\ ~Twice(services, "name")

====
